---- MODULE Spec2Model ----
(***************************************************************************)
(* Threshold selection and threshold-reversion backtest of the pair-spread *)
(* engine (data_extraction/entry_dates.py and its copies under             *)
(* "risk assesment"), and the consumers of the selected threshold.         *)
(*                                                                         *)
(* Numbers.  z-scores and thresholds are counted in tenths: the integer k  *)
(* stands for the IEEE double nearest to k/10, which is what               *)
(* round(x / 10, 1) yields for the candidates.  Dates are day numbers      *)
(* (date.toordinal()), so (d2 - d1).days is the integer difference.        *)
(* The code compares against the double S - 1.0, which is not always the   *)
(* double nearest to (k-10)/10; FloatErr records on which side it falls,   *)
(* and comparisons against S - 1.0 are made on a grid ten times finer.     *)
(***************************************************************************)
EXTENDS Integers, Sequences, FiniteSets, TLC

VARIABLES
    pc,           \* position of the running function
    row,          \* the row of the current loop iteration, <<>> before the first
    n,            \* rows read so far (the next enumerate index i)
    state,        \* most_frequent_one_unit_drop: per candidate above / drop_start
    drops,        \* most_frequent_one_unit_drop: completed drops per candidate
    best,         \* the value most_frequent_one_unit_drop returned
    hist,         \* history, per candidate: spike (|z| >= S was seen during the
                  \* current or the last timing) and fell (the days the last
                  \* completed timing took)
    threshold,    \* analyze_threshold_reversions: the threshold argument
    bt,           \* analyze_threshold_reversions: in_trade, trade_type,
                  \* entry_date, entry_index, entries
    spans,        \* history: <<entry index, exit index>> of each window of entries
    hold,         \* input: how the backtested sequence may go on
    epsilon_data, \* the pair's rows handed to a consumer of the selector
    consumer,     \* the consumer that ran
    analyzed,     \* thresholds analyze_threshold_reversions was called with
    windows,      \* trade-window rows returned for add_trade_windows_batch
    lines,        \* entry / exit levels drawn by submit_pair
    copies,       \* the loops of the other copies of the selector and the backtester
    pair_prices,  \* epsilon.py: the pair's (date, log price, log price) rows
    coef,         \* epsilon.py: alpha and beta of the pair
    df,           \* epsilon.py: the pair's DataFrame
    t_idx,        \* epsilon.py: t, the index of the rolling loop
    upload,       \* epsilon.py: the list epsilon_data built for the batch upload
    epsilon_prices, \* table epsilon_prices
    raised,       \* the exception that ended the run, <<>> when none
    cointegration_tests, \* table cointegration_tests
    cointegrated_data, \* the rows get_latest_cointegrated_pairs returned
    prices_1, \* get_pair_log_prices: (price_id, date) of the first ticker
    prices_2, \* get_pair_log_prices: (price_id, date) of the second ticker
    date_range, \* get_pair_log_prices: start_date and end_date
    log_prices, \* table log_prices
    aligned, \* what get_pair_log_prices returned
    ticker_prices, \* analyze_single_pair: the (price_id, date) rows db.get_ticker_price_ids returns for each ticker
    pairs_to_analyze, \* new_cointstrat.py main: the pairs of the batch
    window_size, \* analyze_single_pair: window_size
    pair_idx, \* pairs of the batch main has gone through
    successful_pairs, \* new_cointstrat.py main: successful_pairs
    events, \* what the run printed, pair by pair
    batch_log_prices, \* run_engle_granger_test: the rows of each pair, pair by pair
    coint_out, \* the p-value statsmodels coint returns, <<>> when it raises
    results, \* run_engle_granger_test: the results it returned
    driver, \* which batch driver runs
    outcomes, \* what processing each pair of the batch does: the rows it yields, or the exception it raises
    yielded, \* the pairs whose processing the driver has collected
    all_results, \* the rows the driver holds in memory
    stored, \* the rows the driver has committed to the database
    batch_error, \* the exception that left the driver
    printed, \* the errors the driver caught and printed
    chunk_size, \* entry_dates.py main: chunk_size
    chunk_no, \* the chunks of pairs main has given to a pool
    pending, \* the pairs of the pool whose result main has not collected
    handed, \* how often each pair was handed to process_pair
    writer, \* which writer of the database runs
    batch, \* the rows it is called with
    trade_window, \* the table trade_window
    legacy_tests, \* the table cointegration_tests of cointegration_test.py
    writes, \* for each write of the batch so far, the error it raised and the rows stored after it
    UPDATE_TIME, \* main.py: UPDATE_TIME, in minutes after midnight
    started, \* when main was started, in minutes after midnight
    start_weekday, \* the weekday main was started on
    task_minutes, \* how long one call of daily_task takes
    now, \* the wall clock, in minutes after the midnight of the first day
    jobs, \* the jobs registered with schedule
    task_log, \* when daily_task was called
    last_steps \* the steps the last call of daily_task ran

selVars == <<state, drops, hist>>
btVars == <<threshold, bt, spans, hold>>
pairVars == <<epsilon_data, consumer, analyzed, windows, lines, copies>>
epsVars == <<pair_prices, coef, df, t_idx, upload, epsilon_prices, raised>>
cointVars == <<cointegration_tests, cointegrated_data>>
alignVars == <<prices_1, prices_2, date_range, log_prices, aligned>>
testerVars == <<ticker_prices, pairs_to_analyze, window_size, pair_idx, successful_pairs, events, batch_log_prices, coint_out, results>>
batchVars == <<driver, outcomes, yielded, all_results, stored, batch_error, printed,
              chunk_size, chunk_no, pending, handed>>
writerVars == <<writer, batch, trade_window, legacy_tests, writes>>
schedVars == <<UPDATE_TIME, started, start_weekday, task_minutes, now, jobs, task_log, last_steps>>
libVars == <<epsVars, cointVars, alignVars, testerVars, batchVars, writerVars, schedVars>>
vars == <<pc, row, n, best, selVars, btVars, pairVars, libVars>>

\* ------------------------------------------------------------------ bounds
\* rows of one z-score sequence scanned by the threshold selector
MaxRows == 6

\* z-scores of the rows fed to the selector, in tenths
SelZ == {0, 6, 14, -25}

\* days between consecutive rows fed to the selector
SelGaps == {15, 16}

\* day number of the first row fed to the selector
SelFirstDay == 1

\* rows of a backtested sequence whose z-score is chosen freely
MaxFree == 4

\* runs of repeated z-scores in a backtested sequence
MaxRuns == 2

\* a freely chosen row is followed by this many rows that repeat its z-score
BtHolds == {0, 29, 30}

\* z-scores of the rows fed to the backtester, in tenths
BtZ == {-20, 0, 9, 20}

\* thresholds the backtester is run with, in tenths
BtThresholds == {10, 19, 20}

\* day number of the first backtested row (day 0 is a Monday)
BtFirstDay == 3

\* rows of a pair handed to a consumer of the selector
MaxPairRows == 3

\* ---------------------------------------------------------------- constants
\* range(20, 9, -1): the candidates 2.0 ... 1.0, in tenths
TopCandidate == 20
StopCandidate == 9
\* (d - drop_start).days <= 30
DropDays == 30
\* return 7, in tenths
Sentinel == 70
\* if i - entry_index >= 30
TimeoutRows == 30

\* Python's None; a value v that may be None is held as <<v>>
None == <<>>

\* thresholds = [round(x / 10, 1) for x in range(20, 9, -1)]
thresholds == {x \in 0..TopCandidate : x > StopCandidate}

\* abs(row["z_score"])
Abs(z) == IF z < 0 THEN -z ELSE z

\* The double S - 1.0 against the double nearest (S*10 - 10)/10:
\* 1.9-1.0, 1.4-1.0, 1.2-1.0 fall below it, 1.6-1.0, 1.3-1.0, 1.1-1.0 above.
FloatErr(S) ==
    CASE S \in {19, 14, 12} -> -1
      [] S \in {16, 13, 11} -> 1
      [] OTHER -> 0

\* S - 1.0, on the grid ten times finer than the tenths
SubOne(S) == 10 * (S - 10) + FloatErr(S)

\* LtSubOne with a fault: <= in place of <
LtSubOneInclusive(z, S) == 10 * z <= SubOne(S)

\* abs_z < S - 1.0
LtSubOne(z, S) == 10 * z < SubOne(S)

\* S - 1.0 <= abs_z
GeSubOne(z, S) == 10 * z >= SubOne(S)

\* ------------------------------------------------- most_frequent_one_unit_drop
\* state = {S: {"above": False, "drop_start": None} for S in thresholds}
InitState == [S \in thresholds |-> [above |-> FALSE, drop_start |-> None]]

\* drops = defaultdict(int): a key exists once it has been incremented
InitDrops == [S \in {} |-> 0]

\* Branch with a fault: the timer starts whether or not 'above' is set
BranchSlipUnguarded(st, abs_z, S) ==
    IF abs_z >= S /\ ~st.above /\ st.drop_start = None THEN "enter"
    ELSE IF GeSubOne(abs_z, S) /\ abs_z < S /\ st.drop_start = None
         THEN "slip"
    ELSE IF LtSubOne(abs_z, S) /\ st.drop_start # None THEN "fall"
    ELSE "none"

\* which branch of the if / elif / elif chain the row takes for candidate S
Branch(st, abs_z, S) ==
    IF abs_z >= S /\ ~st.above /\ st.drop_start = None THEN "enter"
    ELSE IF GeSubOne(abs_z, S) /\ abs_z < S /\ st.above /\ st.drop_start = None
         THEN "slip"
    ELSE IF LtSubOne(abs_z, S) /\ st.drop_start # None THEN "fall"
    ELSE "none"

\* StepState with a fault: a fall below S - 1 clears 'above' though no timer runs
StepStateFallClearsAbove(st, abs_z, d, S) ==
    IF LtSubOne(abs_z, S) /\ st.drop_start = None
    THEN [above |-> FALSE, drop_start |-> None]
    ELSE CASE Branch(st, abs_z, S) = "enter" -> [st EXCEPT !.above = TRUE]
           [] Branch(st, abs_z, S) = "slip" -> [st EXCEPT !.drop_start = <<d>>]
           [] Branch(st, abs_z, S) = "fall" -> [above |-> FALSE, drop_start |-> None]
           [] OTHER -> st

\* StepState with a fault: |z| >= S clears a running timer
StepStateSpikeResets(st, abs_z, d, S) ==
    IF abs_z >= S /\ st.drop_start # None
    THEN [above |-> TRUE, drop_start |-> None]
    ELSE CASE Branch(st, abs_z, S) = "enter" -> [st EXCEPT !.above = TRUE]
           [] Branch(st, abs_z, S) = "slip" -> [st EXCEPT !.drop_start = <<d>>]
           [] Branch(st, abs_z, S) = "fall" -> [above |-> FALSE, drop_start |-> None]
           [] OTHER -> st

\* the candidate's state after the row
StepState(st, abs_z, d, S) ==
    CASE Branch(st, abs_z, S) = "enter" -> [st EXCEPT !.above = TRUE]
      [] Branch(st, abs_z, S) = "slip" -> [st EXCEPT !.drop_start = <<d>>]
      [] Branch(st, abs_z, S) = "fall" -> [above |-> FALSE, drop_start |-> None]
      [] OTHER -> st

\* Counts with a fault: < 30 in place of <= 30
CountsStrict(st, abs_z, d, S) ==
    /\ Branch(st, abs_z, S) = "fall"
    /\ d - st.drop_start[1] < DropDays

\* if (d - st["drop_start"]).days <= 30: drops[S] += 1
Counts(st, abs_z, d, S) ==
    /\ Branch(st, abs_z, S) = "fall"
    /\ d - st.drop_start[1] <= DropDays

\* StepDrops with a fault: drops[S] is touched by every completed timing
StepDropsTouch(sts, dr, abs_z, d) ==
    LET hit == {S \in thresholds : Counts(sts[S], abs_z, d, S)}
        seen == {S \in thresholds : Branch(sts[S], abs_z, S) = "fall"}
    IN  [S \in (DOMAIN dr) \cup seen |->
            (IF S \in DOMAIN dr THEN dr[S] ELSE 0) + (IF S \in hit THEN 1 ELSE 0)]

\* drops after the row: every candidate that counts is incremented
StepDrops(sts, dr, abs_z, d) ==
    LET hit == {S \in thresholds : Counts(sts[S], abs_z, d, S)}
    IN  [S \in (DOMAIN dr) \cup hit |->
            (IF S \in DOMAIN dr THEN dr[S] ELSE 0) + (IF S \in hit THEN 1 ELSE 0)]

\* the body of "for row in epsilon_data": all candidates advanced by one row
SelStep(sts, dr, z, d) ==
    [state |-> [S \in thresholds |-> StepState(sts[S], Abs(z), d, S)],
     drops |-> StepDrops(sts, dr, Abs(z), d)]

\* KeyLess with a fault: key (kv[1], -kv[0])
KeyLessLowTie(dr, a, b) == dr[a] < dr[b] \/ (dr[a] = dr[b] /\ a > b)

\* key=lambda kv: (kv[1], kv[0]): tuple comparison
KeyLess(dr, a, b) == dr[a] < dr[b] \/ (dr[a] = dr[b] /\ a < b)

\* max(iterable, key=...): the running maximum over the items, replaced only
\* by an item whose key is strictly greater
RECURSIVE MaxOver(_, _, _)
MaxOver(dr, keys, cur) ==
    IF keys = {} THEN cur
    ELSE LET k == CHOOSE x \in keys : TRUE
         IN  MaxOver(dr, keys \ {k}, IF KeyLess(dr, cur, k) THEN k ELSE cur)

\* max(drops.items(), key=...)[0]
MaxKey(dr) ==
    LET first == CHOOSE x \in DOMAIN dr : TRUE
    IN  MaxOver(dr, (DOMAIN dr) \ {first}, first)

\* if not drops: return 7 ... return best
Best(dr) == IF DOMAIN dr = {} THEN Sentinel ELSE MaxKey(dr)

\* the loop over epsilon_data, from row k on
RECURSIVE SelScan(_, _, _, _)
SelScan(data, k, sts, dr) ==
    IF k > Len(data) THEN dr
    ELSE LET r == SelStep(sts, dr, data[k].z_score, data[k].date)
         IN  SelScan(data, k + 1, r.state, r.drops)

most_frequent_one_unit_drop(data) == Best(SelScan(data, 1, InitState, InitDrops))

\* ------------------------------------------------ analyze_threshold_reversions
\* lines 82-86
InitBt ==
    [in_trade |-> FALSE, trade_type |-> None, entry_date |-> None,
     entry_index |-> None, entries |-> <<>>]

\* ExitHit with a fault: the exit tested against the entry level
ExitHitAtEntryLevel(type, z, th) ==
    \/ type = <<"upper">> /\ z < th
    \/ type = <<"lower">> /\ z > -th

\* z <= threshold - 1.0 (upper), z >= -threshold + 1.0 (lower); -threshold + 1.0
\* is exactly -(threshold - 1.0)
ExitHit(type, z, th) ==
    \/ type = <<"upper">> /\ 10 * z <= SubOne(th)
    \/ type = <<"lower">> /\ 10 * z >= -SubOne(th)

\* TimedOut with a fault: > in place of >=
TimedOutLate(b, i) == i - b.entry_index[1] > TimeoutRows

\* if i - entry_index >= 30
TimedOut(b, i) == i - b.entry_index[1] >= TimeoutRows

\* lines 97-100 and 103-106
Enter(b, type, i, d) ==
    [b EXCEPT !.in_trade = TRUE, !.trade_type = <<type>>,
              !.entry_date = <<d>>, !.entry_index = <<i>>]

\* Close with a fault: a timeout resets the trade without recording it
CloseUnrecordedFailure(b, d, success) ==
    [in_trade |-> FALSE, trade_type |-> None, entry_date |-> None,
     entry_index |-> None,
     entries |-> IF success
                 THEN Append(b.entries,
                             [entry_date |-> b.entry_date[1], exit_date |-> d,
                              success |-> success, type |-> b.trade_type[1]])
                 ELSE b.entries]

\* entries.append({...}) and the reset of the four trade variables
Close(b, d, success) ==
    [in_trade |-> FALSE, trade_type |-> None, entry_date |-> None,
     entry_index |-> None,
     entries |-> Append(b.entries,
                        [entry_date |-> b.entry_date[1], exit_date |-> d,
                         success |-> success, type |-> b.trade_type[1]])]

\* if z >= threshold ... elif z <= -threshold: lines 95-106
TryEnter(b, i, z, d, th) ==
    IF z >= th THEN Enter(b, "upper", i, d)
    ELSE IF z <= -th THEN Enter(b, "lower", i, d)
    ELSE b

\* BtStep with a fault: the timeout tested before the exit
BtStepTimeoutFirst(b, i, z, d, th) ==
    IF ~b.in_trade THEN TryEnter(b, i, z, d, th)
    ELSE IF TimedOut(b, i) THEN Close(b, d, FALSE)
         ELSE IF ExitHit(b.trade_type, z, th) THEN Close(b, d, TRUE)
         ELSE b

\* BtStep with a fault: no continue after an exit, the row may enter a trade
BtStepExitReenters(b, i, z, d, th) ==
    IF ~b.in_trade THEN TryEnter(b, i, z, d, th)
    ELSE IF ExitHit(b.trade_type, z, th)
         THEN TryEnter(Close(b, d, TRUE), i, z, d, th)
         ELSE IF TimedOut(b, i) THEN Close(b, d, FALSE)
         ELSE b

\* BtStep with a fault: the row of a timeout may enter a trade
BtStepReenters(b, i, z, d, th) ==
    IF ~b.in_trade THEN TryEnter(b, i, z, d, th)
    ELSE IF ExitHit(b.trade_type, z, th) THEN Close(b, d, TRUE)
         ELSE IF TimedOut(b, i) THEN TryEnter(Close(b, d, FALSE), i, z, d, th)
         ELSE b

\* the body of "for i, row in enumerate(epsilon_data)"
BtStep(b, i, z, d, th) ==
    IF ~b.in_trade THEN TryEnter(b, i, z, d, th)
    ELSE IF ExitHit(b.trade_type, z, th) THEN Close(b, d, TRUE)
         ELSE IF TimedOut(b, i) THEN Close(b, d, FALSE)
         ELSE b

\* the loop over epsilon_data, from row k on (enumerate index k - 1)
RECURSIVE BtScan(_, _, _, _)
BtScan(data, k, b, th) ==
    IF k > Len(data) THEN b
    ELSE BtScan(data, k + 1,
                BtStep(b, k - 1, data[k].z_score, data[k].date, th), th)

\* lines 151-153: success_count / total as the fraction <<success_count, total>>,
\* 0.0 (<<0, 1>>) when total is 0
success_rate(entries) ==
    LET total == Len(entries)
        success_count == Cardinality({k \in 1..total : entries[k].success})
    IN  IF total > 0 THEN <<success_count, total>> ELSE <<0, 1>>

\* lines 155-158: the dict returned for the loop's final variables
Returned(b) == [results |-> b.entries, success_rate |-> success_rate(b.entries)]

\* "results": entries
analyze_threshold_reversions(data, th) == BtScan(data, 1, InitBt, th).entries

\* ------------------------------------------------------------- the consumers
\* rows of get_epsilon_prices (ORDER BY ep.date): z-scores zs, the k-th row
\* gs[k] days after the one before
RECURSIVE DateAt(_, _)
DateAt(gs, k) == IF k = 0 THEN 0 ELSE DateAt(gs, k - 1) + gs[k]

Rows(f) == [k \in 1..Len(f) |-> [date |-> DateAt([j \in 1..Len(f) |-> f[j][2]], k),
                                 z_score |-> f[k][1]]]

PairData == {Rows(f) : f \in UNION {[1..k -> SelZ \X SelGaps] : k \in 0..MaxPairRows}}

\* the tuples built from pos_results['results']
TradeRows(th, entries) ==
    [k \in 1..Len(entries) |->
        [optimal_zscore |-> th,
         reversion_success |-> IF entries[k].success THEN 1 ELSE 0,
         start_date |-> entries[k].entry_date,
         end_date |-> entries[k].exit_date,
         trade_type |-> IF entries[k].type = "upper" THEN 1 ELSE 0]]

\* ---------------------------------------------------------------------------
\* most_frequent_one_unit_drop, row by row

InitHist == [S \in thresholds |-> [spike |-> FALSE, fell |-> None]]

\* the history of candidate S after the row
StepHist(h, st, abs_z, d, S) ==
    CASE Branch(st, abs_z, S) = "slip" -> [h EXCEPT !.spike = FALSE]
      [] Branch(st, abs_z, S) = "fall" -> [h EXCEPT !.fell = <<d - st.drop_start[1]>>]
      [] st.drop_start # None /\ abs_z >= S -> [h EXCEPT !.spike = TRUE]
      [] OTHER -> h

Idle ==
    /\ row = None
    /\ n = 0
    /\ best = None
    /\ state = InitState
    /\ drops = InitDrops
    /\ hist = InitHist
    /\ threshold = None
    /\ bt = InitBt
    /\ spans = <<>>
    /\ hold = [left |-> 0, free |-> 0, runs |-> 0]
    /\ epsilon_data = <<>>
    /\ consumer = None
    /\ analyzed = {}
    /\ windows = <<>>
    /\ lines = None
    /\ copies = None

\* nothing of epsilon.py has run
EpsIdle ==
    /\ pair_prices = <<>>
    /\ coef = None
    /\ df = <<>>
    /\ t_idx = 0
    /\ upload = <<>>
    /\ epsilon_prices = [rows |-> {}, next |-> 1]
    /\ raised = None

\* no cointegration test is stored and none was read
CointIdle ==
    /\ cointegration_tests = [rows |-> {}, next |-> 1]
    /\ cointegrated_data = <<>>

\* get_pair_log_prices was not called
AlignIdle ==
    /\ prices_1 = <<>>
    /\ prices_2 = <<>>
    /\ date_range = <<>>
    /\ log_prices = {}
    /\ aligned = None

\* no cointegration tester has run
TesterIdle ==
    /\ ticker_prices = <<>>
    /\ pairs_to_analyze = <<>>
    /\ window_size = 0
    /\ pair_idx = 0
    /\ successful_pairs = 0
    /\ events = <<>>
    /\ batch_log_prices = <<>>
    /\ coint_out = None
    /\ results = <<>>

\* no batch driver has run
BatchIdle ==
    /\ driver = None
    /\ outcomes = <<>>
    /\ yielded = {}
    /\ all_results = <<>>
    /\ stored = [rows |-> {}, next |-> 1]
    /\ batch_error = None
    /\ printed = <<>>
    /\ chunk_size = 0
    /\ chunk_no = 0
    /\ pending = {}
    /\ handed = <<>>

\* no writer has run
WriterIdle ==
    /\ writer = None
    /\ batch = <<>>
    /\ trade_window = [rows |-> {}, next |-> 1]
    /\ legacy_tests = [rows |-> {}, next |-> 1]
    /\ writes = <<>>

\* main.py has not started
SchedIdle ==
    /\ UPDATE_TIME = 0
    /\ started = 0
    /\ start_weekday = 0
    /\ task_minutes = 0
    /\ now = 0
    /\ jobs = <<>>
    /\ task_log = <<>>
    /\ last_steps = {}

LibIdle ==
    /\ EpsIdle
    /\ CointIdle
    /\ AlignIdle
    /\ TesterIdle
    /\ BatchIdle
    /\ WriterIdle
    /\ SchedIdle

SelInit ==
    /\ pc = "scan"
    /\ Idle
    /\ LibIdle

\* one iteration of "for row in epsilon_data"
SelRow(z, gap) ==
    /\ pc = "scan"
    /\ n < MaxRows
    /\ LET d == IF row = None THEN SelFirstDay ELSE row[1].date + gap
           r == SelStep(state, drops, z, d)
       IN  /\ row' = <<[date |-> d, z_score |-> z]>>
           /\ state' = r.state
           /\ drops' = r.drops
           /\ hist' = [S \in thresholds |-> StepHist(hist[S], state[S], Abs(z), d, S)]
    /\ n' = n + 1
    /\ UNCHANGED <<pc, best, btVars, pairVars, libVars>>

\* the loop is over: lines 54-58
SelReturn ==
    /\ pc = "scan"
    /\ best' = <<Best(drops)>>
    /\ pc' = "done"
    /\ UNCHANGED <<row, n, selVars, btVars, pairVars, libVars>>

SelNext ==
    \/ \E z \in SelZ, gap \in SelGaps : SelRow(z, gap)
    \/ SelReturn

Spec == SelInit /\ [][SelNext]_vars

\* ---------------------------------------------------------------------------
\* analyze_threshold_reversions, row by row, run with any of BtThresholds over
\* sequences of trading days (Monday to Friday).  The timeout needs 31 rows of
\* one trade, so the sequences are bounded by their shape: at most MaxFree
\* rows choose their z-score freely, and at most MaxRuns of them are followed
\* by 29 or 30 rows that repeat it.

\* days to the next trading day after day d (day 0 is a Monday)
TradingGap(d) == IF d % 7 = 4 THEN 3 ELSE 1

BtInit ==
    /\ pc = "scan"
    /\ row = None
    /\ n = 0
    /\ best = None
    /\ state = InitState
    /\ drops = InitDrops
    /\ hist = InitHist
    /\ threshold \in {<<t>> : t \in BtThresholds}
    /\ bt = InitBt
    /\ spans = <<>>
    /\ hold = [left |-> 0, free |-> 0, runs |-> 0]
    /\ epsilon_data = <<>>
    /\ consumer = None
    /\ analyzed = {}
    /\ windows = <<>>
    /\ lines = None
    /\ copies = None
    /\ LibIdle

\* one iteration of the loop over the row (d, z)
BtRead(z, d) ==
    /\ row' = <<[date |-> d, z_score |-> z]>>
    /\ bt' = BtStep(bt, n, z, d, threshold[1])
    /\ spans' = IF Len(bt'.entries) > Len(bt.entries)
                THEN Append(spans, <<bt.entry_index[1], n>>)
                ELSE spans
    /\ n' = n + 1
    /\ UNCHANGED <<pc, best, selVars, threshold, pairVars, libVars>>

\* a row whose z-score is chosen freely, followed by h rows that repeat it
BtRow(z, h) ==
    /\ pc = "scan"
    /\ hold.left = 0
    /\ hold.free < MaxFree
    /\ h > 0 => hold.runs < MaxRuns
    /\ BtRead(z, IF row = None THEN BtFirstDay
                 ELSE row[1].date + TradingGap(row[1].date))
    /\ hold' = [left |-> h, free |-> hold.free + 1,
                runs |-> hold.runs + (IF h > 0 THEN 1 ELSE 0)]

\* a row that repeats the z-score of the row before
BtRepeat ==
    /\ pc = "scan"
    /\ hold.left > 0
    /\ BtRead(row[1].z_score, row[1].date + TradingGap(row[1].date))
    /\ hold' = [hold EXCEPT !.left = hold.left - 1]

\* BtReturn with a fault: a trade still open is recorded as a failure
BtReturnFlushes ==
    /\ pc = "scan"
    /\ hold.left = 0
    /\ pc' = "done"
    /\ bt' = IF bt.in_trade
             THEN [bt EXCEPT !.entries =
                      Append(@, [entry_date |-> bt.entry_date[1],
                                 exit_date |-> row[1].date,
                                 success |-> FALSE, type |-> bt.trade_type[1]])]
             ELSE bt
    /\ UNCHANGED <<row, n, best, selVars, threshold, spans, hold, pairVars, libVars>>

\* the loop is over: lines 150-158
BtReturn ==
    /\ pc = "scan"
    /\ hold.left = 0
    /\ pc' = "done"
    /\ UNCHANGED <<row, n, best, selVars, btVars, pairVars, libVars>>

BtNext ==
    \/ \E z \in BtZ, h \in BtHolds : BtRow(z, h)
    \/ BtRepeat
    \/ BtReturn

SpecBt == BtInit /\ [][BtNext]_vars

\* ---------------------------------------------------------------------------
\* the consumers of most_frequent_one_unit_drop, each run on one pair's rows

PairInit ==
    /\ pc = "call"
    /\ row = None
    /\ n = 0
    /\ best = None
    /\ state = InitState
    /\ drops = InitDrops
    /\ hist = InitHist
    /\ threshold = None
    /\ bt = InitBt
    /\ spans = <<>>
    /\ hold = [left |-> 0, free |-> 0, runs |-> 0]
    /\ epsilon_data \in PairData
    /\ consumer = None
    /\ analyzed = {}
    /\ windows = <<>>
    /\ lines = None
    /\ copies = None
    /\ LibIdle

\* what is left alone by every consumer
PairFrame == UNCHANGED <<row, n, selVars, btVars, epsilon_data, copies, libVars>>

\* data_extraction/entry_dates.py process_pair, its rows inserted by main
process_pair ==
    /\ pc = "call"
    /\ consumer' = <<"process_pair">>
    /\ IF epsilon_data = <<>>
       THEN UNCHANGED <<best, analyzed, windows>>
       ELSE LET optimal_threshold == most_frequent_one_unit_drop(epsilon_data)
            IN  /\ best' = <<optimal_threshold>>
                /\ IF optimal_threshold = Sentinel
                   THEN UNCHANGED <<analyzed, windows>>
                   ELSE /\ analyzed' = {optimal_threshold}
                        /\ windows' = TradeRows(optimal_threshold,
                               analyze_threshold_reversions(epsilon_data,
                                                            optimal_threshold))
    /\ pc' = "done"
    /\ UNCHANGED lines
    /\ PairFrame

\* risk assesment/entry_dates.py main, one pair of the loop
risk_main ==
    /\ pc = "call"
    /\ consumer' = <<"main">>
    /\ IF epsilon_data = <<>>
       THEN UNCHANGED <<best, analyzed, windows>>
       ELSE LET optimal_threshold == most_frequent_one_unit_drop(epsilon_data)
            IN  /\ best' = <<optimal_threshold>>
                /\ IF optimal_threshold # Sentinel
                   THEN /\ analyzed' = {optimal_threshold}
                        /\ windows' = TradeRows(optimal_threshold,
                               analyze_threshold_reversions(epsilon_data,
                                                            optimal_threshold))
                   ELSE UNCHANGED <<analyzed, windows>>
    /\ pc' = "done"
    /\ UNCHANGED lines
    /\ PairFrame

\* risk assesment/epsilon_entry.py EpsilonPairSelector.submit_pair
submit_pair ==
    /\ pc = "call"
    /\ consumer' = <<"submit_pair">>
    /\ IF epsilon_data = <<>>
       THEN UNCHANGED <<best, lines>>
       ELSE LET optimal_threshold == most_frequent_one_unit_drop(epsilon_data)
            IN  /\ best' = <<optimal_threshold>>
                /\ lines' = <<[entry |-> optimal_threshold,
                               exit |-> optimal_threshold - 10]>>
    /\ pc' = "done"
    /\ UNCHANGED <<analyzed, windows>>
    /\ PairFrame

PairNext ==
    \/ process_pair
    \/ risk_main
    \/ submit_pair

SpecPair == PairInit /\ [][PairNext]_vars

\* ---------------------------------------------------------------------------
\* data_extraction/epsilon.py, the body of the loop over the pairs (lines
\* 33-100) and the batch upload (lines 103-105), run for one pair with a given
\* alpha and beta.  Log prices, alpha and beta are integers, so the spread is
\* exact.  A float that the code derives from them is held as a record:
\*   kind "num":  the quotient num / den
\*   kind "sqrt": the square root of num / den
\*   kind "quot": (num / Window) / sqrt(den / (Window * (Window - 1)))
\*   kind "nan", kind "inf" (num is the sign)
\* Dates are day numbers.  Row i of a frame (iloc[i], counted from 0) is the
\* element i + 1 of the sequence.

\* for t in range(90, len(df)) and df.iloc[t-90:t]
Window == 90

\* lengths of the flat stretch that opens a pair's series
FlatLens == {Window - 1, Window, Window + 1}

\* rows that follow the flat stretch, each chosen freely
MaxTail == 2

\* log prices of the two tickers
LogPairs == {<<3, 1>>, <<5, 1>>, <<5, 2>>}

\* <<alpha, beta>> of a pair
Coefs == {<<0, 1>>, <<1, 2>>}

NaN == [kind |-> "nan", num |-> 0, den |-> 1]
Inf(sign) == [kind |-> "inf", num |-> sign, den |-> 1]
Num(a, b) == [kind |-> "num", num |-> a, den |-> b]

\* pd.notna
notna(x) == x.kind # "nan"

\* x != 0 and x == 0 of a float
IsZero(x) == x.kind \in {"num", "sqrt", "quot"} /\ x.num = 0

\* abs of a float
FAbs(x) == IF x.kind = "nan" THEN x ELSE [x EXCEPT !.num = Abs(x.num)]

RECURSIVE SumOf(_)
SumOf(s) == IF s = <<>> THEN 0 ELSE Head(s) + SumOf(Tail(s))

Squares(s) == [i \in 1..Len(s) |-> s[i] * s[i]]

\* Series.mean()
Mean(s) == IF s = <<>> THEN NaN ELSE Num(SumOf(s), Len(s))

\* Series.std(), the sample deviation (ddof = 1)
Std(s) ==
    IF Len(s) < 2 THEN NaN
    ELSE [kind |-> "sqrt",
          num |-> Len(s) * SumOf(Squares(s)) - SumOf(s) * SumOf(s),
          den |-> Len(s) * (Len(s) - 1)]

\* (x - mean) / std of the integer x and two floats, as IEEE division
Standardize(x, mean, std) ==
    IF mean.kind = "nan" \/ std.kind = "nan" THEN NaN
    ELSE LET above == x * mean.den - mean.num
         IN  IF std.num = 0
             THEN IF above = 0 THEN NaN
                  ELSE Inf(IF above > 0 THEN 1 ELSE -1)
             ELSE [kind |-> "quot", num |-> above, den |-> std.num]

\* the rows get_latest_log_prices_for_pair returns, latest date first:
\* flat rows of the log prices v, then the rows of tail
LatestRows(flat, v, tail) ==
    LET all == [i \in 1..flat |-> v] \o tail
        len == Len(all)
    IN  [i \in 1..len |->
            [date |-> len - i, a |-> all[len - i + 1][1], b |-> all[len - i + 1][2]]]

\* the series a pair may have
PairPrices ==
    { LatestRows(flat, v, tail) :
        flat \in FlatLens, v \in LogPairs,
        tail \in UNION { [1..k -> LogPairs] : k \in 0..MaxTail } }

\* df.sort_values('date'): a row goes behind the rows of an earlier date and
\* behind the rows of its own date that came before it
sort_values(rows) ==
    LET len == Len(rows)
        dates == SubSeq([k \in 1..len |-> rows[k].date], 1, len)
        place == SubSeq([k \in 1..len |->
                            1 + Cardinality({j \in 1..len :
                                    \/ dates[j] < dates[k]
                                    \/ dates[j] = dates[k] /\ j < k})], 1, len)
    IN  SubSeq([i \in 1..len |-> rows[CHOOSE k \in 1..len : place[k] = i]], 1, len)

\* lines 33-50: the frame with its spread and its empty result columns
NewFrame(prices, alpha, beta) ==
    LET sorted == sort_values(prices)
    IN  [i \in 1..Len(sorted) |->
            [date |-> sorted[i].date,
             spread |-> sorted[i].a - alpha - beta * sorted[i].b,
             rolling_mean |-> NaN, rolling_std |-> NaN,
             zscore |-> NaN, epsilon |-> NaN]]

\* the column 'spread'
SpreadOf(frame) == [i \in 1..Len(frame) |-> frame[i].spread]

\* df.iloc[i-90:i]['spread'] with a fault: the window ends with row i itself
WindowUpToNow(spread, i) == SubSeq(spread, i - Window + 2, i + 1)

\* df.iloc[i-90:i]['spread']
WindowBefore(spread, i) == SubSeq(spread, i - Window + 1, i)

\* lines 54-66: row i of the frame after the iteration t = i
RollRow(frame, i) ==
    LET window == WindowBefore(SpreadOf(frame), i)
        mean == Mean(window)
        std == Std(window)
        z == IF ~IsZero(std)
             THEN Standardize(frame[i + 1].spread, mean, std)
             ELSE Num(0, 1)
    IN  [frame[i + 1] EXCEPT !.rolling_mean = mean, !.rolling_std = std,
                             !.zscore = z, !.epsilon = FAbs(z)]

\* line 69: the column 'zscore' computed again from the other columns
ZscoreColumn(frame) ==
    [i \in 1..Len(frame) |->
        [frame[i] EXCEPT !.zscore =
            Standardize(frame[i].spread, frame[i].rolling_mean,
                        frame[i].rolling_std)]]

\* ids of the tickers of the pair
Ticker1 == 1
Ticker2 == 2

\* get_ticker_price_id: the id of the ticker's price row of the date; the
\* prices come from a join of both tickers' rows, so the row exists
get_ticker_price_id(ticker, date) == 2 * date + ticker

\* get_log_price_id_from_ticker_price: every price row of the join has a log
\* price row
get_log_price_id_from_ticker_price(ticker_price_id) == ticker_price_id + 1000

RECURSIVE ValidRows(_, _)
\* the rows of the frame whose rolling_mean is not NaN, in order
ValidRows(frame, i) ==
    IF i > Len(frame) THEN <<>>
    ELSE (IF notna(frame[i].rolling_mean) THEN <<frame[i]>> ELSE <<>>)
         \o ValidRows(frame, i + 1)

\* lines 76-100: the tuples appended to epsilon_data
FormatRows(frame) ==
    LET valid == ValidRows(frame, 1)
    IN  [k \in 1..Len(valid) |->
            [ticker_1_logprice_id |-> get_log_price_id_from_ticker_price(
                                          get_ticker_price_id(Ticker1, valid[k].date)),
             ticker_2_logprice_id |-> get_log_price_id_from_ticker_price(
                                          get_ticker_price_id(Ticker2, valid[k].date)),
             ticker_id_1 |-> Ticker1,
             ticker_id_2 |-> Ticker2,
             epsilon |-> valid[k].epsilon,
             rolling_mean |-> valid[k].rolling_mean,
             rolling_std |-> valid[k].rolling_std,
             z_score |-> valid[k].zscore,
             date |-> valid[k].date]]

\* ---------------------------------------------------------------------------
\* DB/database.py: a table is its rows (each with its AUTOINCREMENT id) and the
\* id the next inserted row gets

\* INSERT OR REPLACE of one row: the rows that share its unique key are
\* deleted, and the row is inserted under the next id
InsertOrReplace(tbl, r, unique) ==
    [rows |-> {x \in tbl.rows : \E c \in unique : x[c] # r[c]}
              \cup {[c \in DOMAIN r \cup {"id"} |->
                        IF c = "id" THEN tbl.next ELSE r[c]]},
     next |-> tbl.next + 1]

RECURSIVE executemany(_, _, _)
\* cursor.executemany of an INSERT OR REPLACE over the rows, in order
executemany(tbl, rows, unique) ==
    IF rows = <<>> THEN tbl
    ELSE executemany(InsertOrReplace(tbl, Head(rows), unique), Tail(rows), unique)

\* CONSTRAINT uix_epsilon_price UNIQUE (ticker_1_logprice_id, ticker_2_logprice_id)
uix_epsilon_price == {"ticker_1_logprice_id", "ticker_2_logprice_id"}

\* the REAL NOT NULL columns of epsilon_prices; sqlite3 binds a NaN as NULL
EpsilonReal == {"epsilon", "rolling_mean", "rolling_std", "z_score"}

\* add_epsilon_prices_batch: the table after the call and the sqlite3.Error it
\* raises again after the rollback, None when it commits
add_epsilon_prices_batch(tbl, rows) ==
    IF \E k \in 1..Len(rows) : \E c \in EpsilonReal : ~notna(rows[k][c])
    THEN [table |-> tbl, error |-> <<"IntegrityError">>]
    ELSE [table |-> executemany(tbl, rows, uix_epsilon_price), error |-> None]

\* ---------------------------------------------------------------------------
\* epsilon.py for one pair, step by step

SpreadInit ==
    /\ pc = "frame"
    /\ Idle
    /\ pair_prices \in PairPrices
    /\ coef \in Coefs
    /\ df = <<>>
    /\ t_idx = 0
    /\ upload = <<>>
    /\ epsilon_prices = [rows |-> {}, next |-> 1]
    /\ raised = None
    /\ CointIdle
    /\ AlignIdle
    /\ TesterIdle
    /\ BatchIdle
    /\ WriterIdle
    /\ SchedIdle

SpreadFrame ==
    UNCHANGED <<row, n, best, selVars, btVars, pairVars, pair_prices, coef,
                cointVars, alignVars, testerVars, batchVars,
                   writerVars, schedVars>>

\* lines 33-50
epsilon_frame ==
    /\ pc = "frame"
    /\ df' = NewFrame(pair_prices, coef[1], coef[2])
    /\ t_idx' = Window
    /\ pc' = "roll"
    /\ UNCHANGED <<upload, epsilon_prices, raised>>
    /\ SpreadFrame

\* lines 53-66, one iteration
epsilon_roll ==
    /\ pc = "roll"
    /\ t_idx < Len(df)
    /\ df' = [df EXCEPT ![t_idx + 1] = RollRow(df, t_idx)]
    /\ t_idx' = t_idx + 1
    /\ UNCHANGED <<pc, upload, epsilon_prices, raised>>
    /\ SpreadFrame

\* line 69, after the last iteration
epsilon_zscore ==
    /\ pc = "roll"
    /\ t_idx >= Len(df)
    /\ df' = ZscoreColumn(df)
    /\ pc' = "format"
    /\ UNCHANGED <<t_idx, upload, epsilon_prices, raised>>
    /\ SpreadFrame

\* lines 76-100
epsilon_format ==
    /\ pc = "format"
    /\ upload' = FormatRows(df)
    /\ pc' = "upload"
    /\ UNCHANGED <<df, t_idx, epsilon_prices, raised>>
    /\ SpreadFrame

\* lines 103-105
epsilon_upload ==
    /\ pc = "upload"
    /\ IF upload = <<>>
       THEN /\ pc' = "done"
            /\ UNCHANGED <<epsilon_prices, raised>>
       ELSE LET added == add_epsilon_prices_batch(epsilon_prices, upload)
            IN  /\ epsilon_prices' = added.table
                /\ raised' = added.error
                /\ pc' = IF added.error = None THEN "done" ELSE "raised"
    /\ UNCHANGED <<df, t_idx, upload>>
    /\ SpreadFrame

SpreadNext ==
    \/ epsilon_frame
    \/ epsilon_roll
    \/ epsilon_zscore
    \/ epsilon_format
    \/ epsilon_upload

SpecSpread == SpreadInit /\ [][SpreadNext]_vars

\* ---------------------------------------------------------------------------
\* DB/database.py: the cointegration tests.  p-values are in thousandths.

\* ids of the table tickers
Tickers == {1, 2, 3}

\* tickers.symbol of a ticker id; the symbols sort as their ids do
Symbol(id) == <<"A", "B", "C">>[id]

\* get_ticker_id
get_ticker_id(symbol) == CHOOSE id \in Tickers : Symbol(id) = symbol

\* max_p_value: float = 0.05
DefaultMaxP == 50

\* p-values of the stored tests
PValues == {49, 50, 51}

\* stored tests of one database
MaxTests == 2

\* CONSTRAINT uix_coint_pair_date UNIQUE (ticker_id_1, ticker_id_2, test_date)
uix_coint_pair_date == {"ticker_id_1", "ticker_id_2", "test_date"}

EmptyTable == [rows |-> {}, next |-> 1]

\* the rows add_cointegration_test may have been called with
TestRows ==
    [ticker_id_1 : {1}, ticker_id_2 : {2, 3}, p_value : PValues,
     beta : {1, 2}, test_date : {1, 2}]

\* add_cointegration_test of database.py
add_cointegration_test(tbl, r) == InsertOrReplace(tbl, r, uix_coint_pair_date)

\* the table cointegration_tests after at most MaxTests calls
StoredTests ==
    { executemany(EmptyTable, rows, uix_coint_pair_date) :
        rows \in UNION { [1..k -> TestRows] : k \in 0..MaxTests } }

\* ORDER BY t1.symbol, t2.symbol of rows <<symbol, symbol, ...>>
SymbolsBefore(x, y) ==
    \/ get_ticker_id(x[1]) < get_ticker_id(y[1])
    \/ x[1] = y[1] /\ get_ticker_id(x[2]) < get_ticker_id(y[2])

RECURSIVE OrderBySymbols(_)
OrderBySymbols(rows) ==
    IF rows = {} THEN <<>>
    ELSE LET first == CHOOSE x \in rows : \A y \in rows : ~SymbolsBefore(y, x)
         IN  <<first>> \o OrderBySymbols(rows \ {first})

\* get_latest_cointegrated_pairs: DISTINCT (symbol, symbol, beta) of the tests
\* of the latest test date whose p_value <= max_p_value
get_latest_cointegrated_pairs(tbl, max_p_value) ==
    LET latest == {r \in tbl.rows : \A x \in tbl.rows : x.test_date <= r.test_date}
    IN  OrderBySymbols({ <<Symbol(r.ticker_id_1), Symbol(r.ticker_id_2), r.beta>> :
                          r \in {x \in latest : x.p_value <= max_p_value} })

\* ---------------------------------------------------------------------------
\* data_extraction/epsilon.py, the script from its first line.  The log
\* prices the database holds for the tickers of a pair are pair_prices.

\* the series of the database: flat ones
FlatPrices == { LatestRows(flat, v, <<>>) : flat \in FlatLens, v \in LogPairs }

EpsilonInit ==
    /\ pc = "load"
    /\ Idle
    /\ pair_prices \in FlatPrices
    /\ coef = None
    /\ df = <<>>
    /\ t_idx = 0
    /\ upload = <<>>
    /\ epsilon_prices = EmptyTable
    /\ raised = None
    /\ cointegration_tests \in StoredTests
    /\ cointegrated_data = <<>>
    /\ AlignIdle
    /\ TesterIdle
    /\ BatchIdle
    /\ WriterIdle
    /\ SchedIdle

\* lines 15-23: pair[3] of line 20 raises IndexError on a row of three
\* columns; with no row the loop of line 29 has no pair and nothing is uploaded
epsilon_load ==
    /\ pc = "load"
    /\ LET data == get_latest_cointegrated_pairs(cointegration_tests, DefaultMaxP)
       IN  /\ cointegrated_data' = data
           /\ IF \E k \in 1..Len(data) : Len(data[k]) < 4
              THEN /\ raised' = <<"IndexError">>
                   /\ pc' = "raised"
                   /\ UNCHANGED coef
              ELSE IF data = <<>>
                   THEN /\ pc' = "done"
                        /\ UNCHANGED <<raised, coef>>
                   ELSE /\ pc' = "frame"
                        /\ coef' = <<data[1][4], data[1][3]>>
                        /\ UNCHANGED raised
    /\ UNCHANGED <<row, n, best, selVars, btVars, pairVars, pair_prices, df,
                   t_idx, upload, epsilon_prices, cointegration_tests,
                   alignVars, testerVars, batchVars,
                   writerVars, schedVars>>

EpsilonNext ==
    \/ epsilon_load

SpecEpsilon == EpsilonInit /\ [][EpsilonNext]_vars

\* ---------------------------------------------------------------------------
\* data_extraction/new_cointstrat.py get_pair_log_prices.  Dates are day
\* numbers; the code compares 'YYYY-MM-DD' strings, which order as the days do.

\* dates of the price rows
AlignDates == 1..4

\* price rows of one ticker
MaxPrices == 3

\* <<start_date, end_date>> of a call
DateRanges == {<<1, 4>>, <<2, 3>>, <<2, 2>>, <<3, 2>>}

\* ticker_prices.id of the k-th price row handed in for a ticker
PriceId(ticker, k) == 10 * (ticker - 1) + k

\* the (price_id, date) lists a ticker may have: UNIQUE (ticker_id, date)
PriceLists(ticker) ==
    { [k \in 1..Len(dates) |-> <<PriceId(ticker, k), dates[k]>>] :
        dates \in { s \in UNION { [1..k -> AlignDates] : k \in 0..MaxPrices } :
                      \A i, j \in 1..Len(s) : i # j => s[i] # s[j] } }

\* the row of log_prices for a price row: its id is not the price row's id
\* and its log price is neither
LogPriceRow(price_id) ==
    [id |-> get_log_price_id_from_ticker_price(price_id),
     ticker_price_id |-> price_id,
     log_price |-> 2 + (price_id % 3)]

\* the rows of log_prices: every price row has one, but for at most one
LogPriceTables ==
    LET ids == {PriceId(ticker, k) : ticker \in {Ticker1, Ticker2}, k \in 1..MaxPrices}
    IN  { {LogPriceRow(p) : p \in ids \ missing} :
            missing \in {{}} \cup {{p} : p \in ids} }

\* get_log_price_ids_batch: SELECT ticker_price_id, id FROM log_prices WHERE
\* ticker_price_id IN (...), as a dict
get_log_price_ids_batch(tbl, ticker_price_ids) ==
    LET found == {r \in tbl : r.ticker_price_id \in ticker_price_ids}
    IN  [p \in {r.ticker_price_id : r \in found} |->
            (CHOOSE r \in found : r.ticker_price_id = p).id]

\* the dates of a (price_id, date) list
DatesOf(prices) == {prices[k][2] : k \in 1..Len(prices)}

\* start_date <= date <= end_date with a fault: the end date is left out
InRangeOpenEnd(date, range) == range[1] <= date /\ date < range[2]

\* start_date <= date <= end_date
InRange(date, range) == range[1] <= date /\ date <= range[2]

\* [(pid, date) for pid, date in prices if start_date <= date <= end_date]
FilterPrices(prices, range) == SelectSeq(prices, LAMBDA x : InRange(x[2], range))

\* {date: price_id for price_id, date in prices}: the last row of a date wins
PriceDict(prices) ==
    [d \in {prices[k][2] : k \in 1..Len(prices)} |->
        prices[CHOOSE k \in 1..Len(prices) :
                  /\ prices[k][2] = d
                  /\ \A j \in (k + 1)..Len(prices) : prices[j][2] # d][1]]

RECURSIVE sorted(_)
\* sorted(set) of dates
sorted(set) ==
    IF set = {} THEN <<>>
    ELSE LET least == CHOOSE x \in set : \A y \in set : x <= y
         IN  <<least>> \o sorted(set \ {least})

get_pair_log_prices(tbl, range, p1, p2) ==
    LET price_dict_1 == PriceDict(FilterPrices(p1, range))
        price_dict_2 == PriceDict(FilterPrices(p2, range))
        common_dates == sorted(DOMAIN price_dict_1 \cap DOMAIN price_dict_2)
        all_price_ids == {price_dict_1[common_dates[k]] : k \in 1..Len(common_dates)}
                         \cup {price_dict_2[common_dates[k]] : k \in 1..Len(common_dates)}
        log_price_ids == get_log_price_ids_batch(tbl, all_price_ids)
        valid == SelectSeq(common_dates,
                     LAMBDA d : /\ price_dict_1[d] \in DOMAIN log_price_ids
                                /\ price_dict_2[d] \in DOMAIN log_price_ids)
    IN  [log_prices_1 |-> [k \in 1..Len(valid) |-> log_price_ids[price_dict_1[valid[k]]]],
         log_prices_2 |-> [k \in 1..Len(valid) |-> log_price_ids[price_dict_2[valid[k]]]],
         valid_dates |-> valid]

AlignInit ==
    /\ pc = "call"
    /\ Idle
    /\ EpsIdle
    /\ CointIdle
    /\ prices_1 \in PriceLists(Ticker1)
    /\ prices_2 \in PriceLists(Ticker2)
    /\ date_range \in DateRanges
    /\ log_prices \in LogPriceTables
    /\ aligned = None
    /\ TesterIdle
    /\ BatchIdle
    /\ WriterIdle
    /\ SchedIdle

\* one call of get_pair_log_prices
call_get_pair_log_prices ==
    /\ pc = "call"
    /\ aligned' = <<get_pair_log_prices(log_prices, date_range, prices_1, prices_2)>>
    /\ pc' = "done"
    /\ UNCHANGED <<row, n, best, selVars, btVars, pairVars, epsVars, cointVars,
                   prices_1, prices_2, date_range, log_prices, testerVars,
                   batchVars,
                   writerVars, schedVars>>

AlignNext ==
    \/ call_get_pair_log_prices

SpecAlign == AlignInit /\ [][AlignNext]_vars

\* ---------------------------------------------------------------------------
\* The cointegration testers: data_extraction/cointegration_test.py
\* run_engle_granger_test and data_extraction/new_cointstrat.py
\* analyze_single_pair with its driver main.

\* if len(prices) < 20
MinPoints == 20

\* rows a pair handed to run_engle_granger_test may have
SampleLens == {10, MinPoints - 1, MinPoints}

\* pairs of one batch
MaxBatch == 2

\* the dicts run_engle_granger_test is called with, as the sequence of their
\* items (a dict keeps the order of insertion)
BatchLogPrices ==
    { [k \in 1..Len(lens) |->
          [pair |-> <<Symbol(1), Symbol(k + 1)>>,
           prices |-> [i \in 1..lens[k] |-> <<i, 3, 1>>]]] :
        lens \in UNION { [1..k -> SampleLens] : k \in 0..MaxBatch } }

\* what coint may do
CointOutcomes == {<<p>> : p \in PValues} \cup {None}

RECURSIVE run_engle_granger_test(_, _, _)
\* run_engle_granger_test of cointegration_test.py from the item k of the
\* dict on: the results and the messages printed
run_engle_granger_test(items, k, out) ==
    IF k > Len(items) THEN [results |-> <<>>, printed |-> <<>>]
    ELSE LET rest == run_engle_granger_test(items, k + 1, out)
             pair == items[k].pair
         IN  IF Len(items[k].prices) < MinPoints
             THEN rest
             ELSE IF out = None
                  THEN [rest EXCEPT !.printed =
                           <<[pair |-> pair, event |-> "Error testing pair"]>> \o @]
                  ELSE [rest EXCEPT !.results =
                           <<[pair |-> pair, p_value |-> out[1], beta |-> 1]>> \o @]

\* the price rows of a ticker: prices of consecutive days
TickerPriceIds(ticker) ==
    { [k \in 1..(last - first + 1) |-> <<PriceId(ticker, k), first + k - 1>>] :
        first \in 1..2, last \in 0..(MaxPrices + 1) }

\* the table log_prices for three tickers: every price row has its row, but
\* for at most one of the first ticker
TesterLogPrices ==
    LET ids == {PriceId(ticker, k) : ticker \in Tickers, k \in 1..(MaxPrices + 1)}
    IN  { {LogPriceRow(p) : p \in ids \ missing} :
            missing \in {{}} \cup {{PriceId(1, k)} : k \in 1..MaxPrices} }

\* the keywords and the parameters of the call of line 157
AddTestKeywords == {"ticker_id_1", "ticker_id_2", "p_value", "alpha", "beta", "test_date"}
AddTestParameters == {"ticker_id_1", "ticker_id_2", "p_value", "beta", "test_date"}

RECURSIVE AnalyzeWindows(_, _, _, _, _, _, _, _)
\* lines 129-174 from the window i on: what is printed, the exception that
\* ends the loop, and the table cointegration_tests
AnalyzeWindows(i, common_dates, t1, t2, wsize, tbl, logs, out) ==
    IF i >= Len(common_dates)
    THEN [printed |-> <<>>, raised |-> None, table |-> tbl]
    ELSE LET window_dates == SubSeq(common_dates, i - wsize + 1, i)
             test_date == common_dates[i + 1]
             got == get_pair_log_prices(logs,
                        <<window_dates[1], window_dates[Len(window_dates)]>>,
                        ticker_prices[t1], ticker_prices[t2])
         IN  IF Len(got.log_prices_1) < wsize
             THEN LET rest == AnalyzeWindows(i + 1, common_dates, t1, t2, wsize,
                                             tbl, logs, out)
                  IN  [rest EXCEPT !.printed =
                          <<[pair |-> <<t1, t2>>, event |-> "Skipping window"]>> \o @]
             ELSE IF out = None
                  THEN [printed |-> <<>>, raised |-> <<"coint">>, table |-> tbl]
                  ELSE IF ~(AddTestKeywords \subseteq AddTestParameters)
                       THEN [printed |-> <<>>, raised |-> <<"TypeError">>, table |-> tbl]
                       ELSE AnalyzeWindows(i + 1, common_dates, t1, t2, wsize,
                                add_cointegration_test(tbl,
                                    [ticker_id_1 |-> t1, ticker_id_2 |-> t2,
                                     p_value |-> out[1], beta |-> 1,
                                     test_date |-> test_date]),
                                logs, out)

\* analyze_single_pair
analyze_single_pair(t1, t2, wsize, tbl, logs, out) ==
    LET common_dates == sorted(DatesOf(ticker_prices[t1])
                               \cap DatesOf(ticker_prices[t2]))
    IN  IF common_dates = <<>>
        THEN [printed |-> <<[pair |-> <<t1, t2>>, event |-> "No common dates"]>>,
              raised |-> None, table |-> tbl]
        ELSE IF Len(common_dates) < wsize
             THEN [printed |-> <<[pair |-> <<t1, t2>>,
                                  event |-> "Not enough data points"]>>,
                   raised |-> None, table |-> tbl]
             ELSE AnalyzeWindows(wsize, common_dates, t1, t2, wsize, tbl, logs, out)

TesterFrame ==
    UNCHANGED <<row, n, best, selVars, btVars, pairVars, epsVars,
                cointegrated_data, alignVars, batchVars,
                   writerVars, schedVars>>

TesterInit ==
    /\ Idle
    /\ EpsIdle
    /\ BatchIdle
    /\ WriterIdle
    /\ SchedIdle
    /\ cointegrated_data = <<>>
    /\ prices_1 = <<>>
    /\ prices_2 = <<>>
    /\ date_range = <<>>
    /\ aligned = None
    /\ pair_idx = 0
    /\ successful_pairs = 0
    /\ events = <<>>
    /\ results = <<>>
    /\ coint_out \in CointOutcomes
    /\ \/ /\ pc = "main"
          /\ ticker_prices \in [Tickers -> UNION {TickerPriceIds(x) : x \in Tickers}]
          /\ \A x \in Tickers : ticker_prices[x] \in TickerPriceIds(x)
          /\ pairs_to_analyze \in {<<<<1, 2>>>>, <<<<1, 2>>, <<1, 3>>>>, <<<<1, 3>>, <<1, 2>>>>}
          /\ window_size \in {2, 3}
          /\ log_prices \in TesterLogPrices
          /\ cointegration_tests \in {EmptyTable}
          /\ batch_log_prices = <<>>
       \/ /\ pc = "test"
          /\ ticker_prices = <<>>
          /\ pairs_to_analyze = <<>>
          /\ window_size = 0
          /\ log_prices = {}
          /\ cointegration_tests = EmptyTable
          /\ batch_log_prices \in BatchLogPrices

\* new_cointstrat.py main, one pair of the loop of lines 214-221
main_pair ==
    /\ pc = "main"
    /\ pair_idx < Len(pairs_to_analyze)
    /\ LET pair == pairs_to_analyze[pair_idx + 1]
           run == analyze_single_pair(pair[1], pair[2], window_size,
                                      cointegration_tests, log_prices, coint_out)
       IN  /\ cointegration_tests' = run.table
           /\ IF run.raised = None
              THEN /\ successful_pairs' = successful_pairs + 1
                   /\ events' = events \o run.printed
              ELSE /\ UNCHANGED successful_pairs
                   /\ events' = events \o run.printed
                          \o <<[pair |-> pair, event |-> "Error processing pair"]>>
    /\ pair_idx' = pair_idx + 1
    /\ UNCHANGED <<pc, ticker_prices, pairs_to_analyze, window_size,
                   log_prices, batch_log_prices, coint_out, results>>
    /\ TesterFrame

\* new_cointstrat.py main after the loop
main_end ==
    /\ pc = "main"
    /\ pair_idx >= Len(pairs_to_analyze)
    /\ pc' = "done"
    /\ UNCHANGED <<testerVars, log_prices, cointegration_tests>>
    /\ TesterFrame

\* one call of run_engle_granger_test of cointegration_test.py
call_run_engle_granger_test ==
    /\ pc = "test"
    /\ LET run == run_engle_granger_test(batch_log_prices, 1, coint_out)
       IN  /\ results' = run.results
           /\ events' = run.printed
    /\ pc' = "done"
    /\ UNCHANGED <<ticker_prices, pairs_to_analyze, window_size, pair_idx,
                   successful_pairs, batch_log_prices, coint_out,
                   log_prices, cointegration_tests>>
    /\ TesterFrame

TesterNext ==
    \/ main_pair
    \/ main_end
    \/ call_run_engle_granger_test

SpecTester == TesterInit /\ [][TesterNext]_vars

\* ---------------------------------------------------------------------------
\* The writers of the database, each called again with the rows it was called
\* with before.

\* writes of one batch
MaxWrites == 2

\* rows of one batch
MaxBatchRows == 2

\* UNIQUE (ticker_id1, ticker_id2, start_date, end_date) of trade_window
uix_trade_window == {"ticker_id1", "ticker_id2", "start_date", "end_date"}

\* the key (pair, date) of the cointegration_tests table that
\* cointegration_test.py writes to
uix_pair_date == {"pair_id", "test_date"}

\* add_trade_windows_batch: the table after the call and the sqlite3.Error it
\* raises again, None when it commits
add_trade_windows_batch(tbl, trade_windows) ==
    [table |-> executemany(tbl, trade_windows, uix_trade_window), error |-> None]

\* a plain INSERT of one row: the statement fails when a row shares its
\* unique key
Insert(tbl, r, unique) ==
    IF \E x \in tbl.rows : \A c \in unique : x[c] = r[c]
    THEN [table |-> tbl, error |-> <<"IntegrityError">>]
    ELSE [table |-> [rows |-> tbl.rows \cup {[c \in DOMAIN r \cup {"id"} |->
                                  IF c = "id" THEN tbl.next ELSE r[c]]},
                     next |-> tbl.next + 1],
          error |-> None]

RECURSIVE InsertMany(_, _, _)
\* cursor.executemany of a plain INSERT over the rows, in order, up to the
\* first that fails
InsertMany(tbl, rows, unique) ==
    IF rows = <<>> THEN [table |-> tbl, error |-> None]
    ELSE LET one == Insert(tbl, Head(rows), unique)
         IN  IF one.error # None THEN one
             ELSE InsertMany(one.table, Tail(rows), unique)

\* cointegration_test.py lines 240-260: executemany and commit; an exception
\* leaves before the commit and the connection is dropped with what it wrote
bulk_insert(tbl, insert_data) ==
    LET done == InsertMany(tbl, insert_data, uix_pair_date)
    IN  IF done.error # None THEN [table |-> tbl, error |-> done.error]
        ELSE done

\* the rows of a table without their ids
StripIds(tbl) == {[c \in DOMAIN x \ {"id"} |-> x[c]] : x \in tbl.rows}

\* the batches with rows of a set
BatchesOf(rows) == UNION { [1..k -> rows] : k \in 1..MaxBatchRows }

EpsilonBatches ==
    BatchesOf([ticker_1_logprice_id : {1001}, ticker_2_logprice_id : {1002, 1004},
               epsilon : {Num(2, 1)}, rolling_mean : {Num(2, 1)},
               rolling_std : {Num(0, 1), Num(1, 1)},
               z_score : {Num(0, 1), NaN}])

TradeWindowBatches ==
    BatchesOf([ticker_id1 : {1}, ticker_id2 : {2}, optimal_zscore : {15, 20},
               reversion_success : {0, 1}, start_date : {1, 2}, end_date : {3},
               trade_type : {1}])

\* the results of one run: one at most for each pair_id, all of the same day
LegacyBatches ==
    { b \in BatchesOf([pair_id : {1, 2}, p_value : {49}, beta : {1, 2},
                       test_date : {1}]) :
        \A i, j \in 1..Len(b) : i # j => b[i].pair_id # b[j].pair_id }

Writers == {"add_epsilon_prices_batch", "add_trade_windows_batch",
            "add_cointegration_test", "bulk_insert"}

WriterFrame ==
    UNCHANGED <<row, n, best, selVars, btVars, pairVars, pair_prices, coef, df,
                t_idx, upload, raised, cointegrated_data, alignVars, testerVars,
                batchVars, schedVars>>

WriterInit ==
    /\ Idle
    /\ pair_prices = <<>>
    /\ coef = <<>>
    /\ df = <<>>
    /\ t_idx = 0
    /\ upload = <<>>
    /\ raised = None
    /\ cointegrated_data = <<>>
    /\ AlignIdle
    /\ TesterIdle
    /\ BatchIdle
    /\ SchedIdle
    /\ pc = "write"
    /\ epsilon_prices = EmptyTable
    /\ cointegration_tests = EmptyTable
    /\ trade_window = EmptyTable
    /\ legacy_tests = EmptyTable
    /\ writes = <<>>
    /\ writer \in Writers
    /\ batch \in CASE writer = "add_epsilon_prices_batch" -> EpsilonBatches
                   [] writer = "add_trade_windows_batch" -> TradeWindowBatches
                   [] writer = "add_cointegration_test" -> {<<r>> : r \in TestRows}
                   [] OTHER -> LegacyBatches

write_epsilon_prices ==
    /\ pc = "write"
    /\ writer = "add_epsilon_prices_batch"
    /\ Len(writes) < MaxWrites
    /\ LET done == add_epsilon_prices_batch(epsilon_prices, batch)
       IN  /\ epsilon_prices' = done.table
           /\ writes' = Append(writes, [error |-> done.error,
                                        rows |-> StripIds(done.table)])
    /\ UNCHANGED <<pc, writer, batch, trade_window, legacy_tests, cointegration_tests>>
    /\ WriterFrame

write_trade_windows ==
    /\ pc = "write"
    /\ writer = "add_trade_windows_batch"
    /\ Len(writes) < MaxWrites
    /\ LET done == add_trade_windows_batch(trade_window, batch)
       IN  /\ trade_window' = done.table
           /\ writes' = Append(writes, [error |-> done.error,
                                        rows |-> StripIds(done.table)])
    /\ UNCHANGED <<pc, writer, batch, epsilon_prices, legacy_tests, cointegration_tests>>
    /\ WriterFrame

write_cointegration_test ==
    /\ pc = "write"
    /\ writer = "add_cointegration_test"
    /\ Len(writes) < MaxWrites
    /\ LET done == add_cointegration_test(cointegration_tests, batch[1])
       IN  /\ cointegration_tests' = done
           /\ writes' = Append(writes, [error |-> None, rows |-> StripIds(done)])
    /\ UNCHANGED <<pc, writer, batch, epsilon_prices, legacy_tests, trade_window>>
    /\ WriterFrame

write_bulk_insert ==
    /\ pc = "write"
    /\ writer = "bulk_insert"
    /\ Len(writes) < MaxWrites
    /\ LET done == bulk_insert(legacy_tests, batch)
       IN  /\ legacy_tests' = done.table
           /\ writes' = Append(writes, [error |-> done.error,
                                        rows |-> StripIds(done.table)])
    /\ UNCHANGED <<pc, writer, batch, epsilon_prices, trade_window, cointegration_tests>>
    /\ WriterFrame

WriterNext ==
    \/ write_epsilon_prices
    \/ write_trade_windows
    \/ write_cointegration_test
    \/ write_bulk_insert

SpecWriter == WriterInit /\ [][WriterNext]_vars

\* ---------------------------------------------------------------------------
\* The batch drivers: main of data_extraction/entry_dates.py (a process pool),
\* main of "risk assesment"/entry_dates.py (a loop), and the thread pool of
\* cointegration_test.py.

Drivers == {"pool", "loop", "threads"}

\* what processing one pair does: it yields so many rows, or raises
PairOutcomes == {[raises |-> FALSE, rows |-> 0], [raises |-> FALSE, rows |-> 1],
                 [raises |-> TRUE, rows |-> 0]}

\* chunk_size = 1000 of main, and sizes that split the batches of the model
ChunkSizes == {1, 2, 1000}

\* for chunk in chunk_data(all_results, 1000)
InsertChunk == 1000

Min(a, b) == IF a < b THEN a ELSE b

\* chunk_data with chunks that share a row
ChunkDataOverlapping(data, size) ==
    [c \in 1..((Len(data) + size - 1) \div size) |->
        SubSeq(data, (c - 1) * size + 1, Min(c * size + 1, Len(data)))]

\* chunk_data: data[i:i + chunk_size] for i in range(0, len(data), chunk_size)
chunk_data(data, size) ==
    [c \in 1..((Len(data) + size - 1) \div size) |->
        SubSeq(data, (c - 1) * size + 1, Min(c * size, Len(data)))]

\* the rows of the pair k: trade windows of the tickers of the pair, and for
\* cointegration_test.py the result of the pair
RowsOf(k) ==
    IF driver = "threads"
    THEN [j \in 1..outcomes[k].rows |->
             [pair_id |-> k, p_value |-> 49, beta |-> 1, test_date |-> 1]]
    ELSE [j \in 1..outcomes[k].rows |->
             [ticker_id1 |-> k, ticker_id2 |-> k + 1, optimal_zscore |-> 15,
              reversion_success |-> 1, start_date |-> j, end_date |-> j + 1,
              trade_type |-> 1]]

\* the rows of a list as a set
Range(s) == {s[j] : j \in 1..Len(s)}

RECURSIVE InsertChunks(_, _)
\* lines 263-264: add_trade_windows_batch chunk by chunk
InsertChunks(tbl, chunks) ==
    IF chunks = <<>> THEN tbl
    ELSE InsertChunks(add_trade_windows_batch(tbl, Head(chunks)).table, Tail(chunks))

\* the chunks of cointegrated_data, its pairs numbered from 1
PairChunks == chunk_data([k \in 1..Len(outcomes) |-> k], chunk_size)

BatchFrame ==
    UNCHANGED <<row, n, best, selVars, btVars, pairVars, epsVars, cointVars,
                alignVars, testerVars, writerVars, schedVars>>

BatchInit ==
    /\ Idle
    /\ EpsIdle
    /\ CointIdle
    /\ AlignIdle
    /\ TesterIdle
    /\ WriterIdle
    /\ SchedIdle
    /\ driver \in Drivers
    /\ pc = driver
    /\ outcomes \in UNION { [1..k -> PairOutcomes] : k \in 0..(MaxBatch + 1) }
    /\ yielded = {}
    /\ all_results = <<>>
    /\ stored = EmptyTable
    /\ batch_error = None
    /\ printed = <<>>
    /\ chunk_size \in IF driver = "pool" THEN ChunkSizes ELSE {0}
    /\ chunk_no = 0
    /\ pending = {}
    /\ handed = [k \in 1..Len(outcomes) |-> 0]

\* data_extraction/entry_dates.py main, lines 253-256: the next chunk is given
\* to a fresh pool
pool_chunk ==
    /\ pc = "pool"
    /\ pending = {}
    /\ chunk_no < Len(PairChunks)
    /\ chunk_no' = chunk_no + 1
    /\ pending' = Range(PairChunks[chunk_no + 1])
    /\ handed' = [k \in 1..Len(outcomes) |->
                     handed[k] + Cardinality({j \in 1..Len(PairChunks[chunk_no + 1]) :
                                                 PairChunks[chunk_no + 1][j] = k})]
    /\ UNCHANGED <<pc, driver, outcomes, yielded, all_results, stored, batch_error,
                   printed, chunk_size>>
    /\ BatchFrame

\* data_extraction/entry_dates.py main, lines 256-258: the next result of
\* pool.imap_unordered, in the order the workers finish
pool_result ==
    /\ pc = "pool"
    /\ \E k \in pending :
          /\ yielded' = yielded \cup {k}
          /\ pending' = pending \ {k}
          /\ IF outcomes[k].raises
             THEN /\ batch_error' = <<k>>
                  /\ pc' = "aborted"
                  /\ UNCHANGED all_results
             ELSE /\ all_results' = all_results \o RowsOf(k)
                  /\ UNCHANGED <<batch_error, pc>>
    /\ UNCHANGED <<driver, outcomes, stored, printed, chunk_size, chunk_no, handed>>
    /\ BatchFrame

\* data_extraction/entry_dates.py main, lines 260-265: the batch insert
pool_insert ==
    /\ pc = "pool"
    /\ pending = {}
    /\ chunk_no = Len(PairChunks)
    /\ stored' = InsertChunks(stored, chunk_data(all_results, InsertChunk))
    /\ pc' = "done"
    /\ UNCHANGED <<driver, outcomes, yielded, all_results, batch_error, printed,
                   chunk_size, chunk_no, pending, handed>>
    /\ BatchFrame

\* "risk assesment"/entry_dates.py main, one pair of the loop of lines 185-236
loop_pair ==
    /\ pc = "loop"
    /\ \E k \in (1..Len(outcomes)) \ yielded :
          /\ \A j \in 1..(k - 1) : j \in yielded
          /\ yielded' = yielded \cup {k}
          /\ IF outcomes[k].raises
             THEN /\ batch_error' = <<k>>
                  /\ pc' = "aborted"
                  /\ UNCHANGED stored
             ELSE /\ stored' = IF RowsOf(k) = <<>> THEN stored
                               ELSE add_trade_windows_batch(stored, RowsOf(k)).table
                  /\ UNCHANGED <<batch_error, pc>>
    /\ UNCHANGED <<driver, outcomes, all_results, printed, chunk_size, chunk_no,
                   pending, handed>>
    /\ BatchFrame

\* "risk assesment"/entry_dates.py main after the loop
loop_end ==
    /\ pc = "loop"
    /\ yielded = 1..Len(outcomes)
    /\ pc' = "done"
    /\ UNCHANGED batchVars
    /\ BatchFrame

\* cointegration_test.py lines 229-238: the next future of as_completed
threads_result ==
    /\ pc = "threads"
    /\ \E k \in (1..Len(outcomes)) \ yielded :
          /\ yielded' = yielded \cup {k}
          /\ IF outcomes[k].raises
             THEN /\ printed' = Append(printed, k)
                  /\ UNCHANGED all_results
             ELSE /\ all_results' = all_results \o RowsOf(k)
                  /\ UNCHANGED printed
    /\ UNCHANGED <<pc, driver, outcomes, stored, batch_error, chunk_size, chunk_no,
                   pending, handed>>
    /\ BatchFrame

\* cointegration_test.py lines 240-260: the bulk insert
threads_insert ==
    /\ pc = "threads"
    /\ yielded = 1..Len(outcomes)
    /\ stored' = IF all_results = <<>> THEN stored
                 ELSE bulk_insert(stored, all_results).table
    /\ pc' = "done"
    /\ UNCHANGED <<driver, outcomes, yielded, all_results, batch_error, printed,
                   chunk_size, chunk_no, pending, handed>>
    /\ BatchFrame

BatchNext ==
    \/ pool_chunk
    \/ pool_result
    \/ pool_insert
    \/ loop_pair
    \/ loop_end
    \/ threads_result
    \/ threads_insert

SpecBatch == BatchInit /\ [][BatchNext]_vars

\* ---------------------------------------------------------------------------
\* The threshold selector and the backtester of entry_dates.py called on rows
\* some of which carry the date of the row before.

\* days between consecutive rows, none for a repeated date
DupGaps == {0, 15}

DupData ==
    {Rows(f) : f \in UNION {[1..k -> SelZ \X DupGaps] : k \in 1..MaxPairRows}}

\* the thresholds analyze_threshold_reversions is called with
DupThresholds == {15, 20}

DupFrame ==
    UNCHANGED <<row, n, selVars, threshold, bt, spans, hold, epsilon_data,
                analyzed, lines, copies, pair_prices, coef, df, t_idx, upload,
                epsilon_prices, cointVars, alignVars, testerVars, batchVars,
                writerVars, schedVars>>

DupInit ==
    /\ pc = "call"
    /\ row = None
    /\ n = 0
    /\ best = None
    /\ state = InitState
    /\ drops = InitDrops
    /\ hist = InitHist
    /\ threshold \in DupThresholds
    /\ bt = InitBt
    /\ spans = <<>>
    /\ hold = [left |-> 0, free |-> 0, runs |-> 0]
    /\ epsilon_data \in DupData
    /\ consumer = None
    /\ analyzed = {}
    /\ windows = <<>>
    /\ lines = None
    /\ copies = None
    /\ LibIdle

\* most_frequent_one_unit_drop(epsilon_data): it has no raise statement
call_most_frequent_one_unit_drop ==
    /\ pc = "call"
    /\ consumer' = <<"most_frequent_one_unit_drop">>
    /\ best' = <<most_frequent_one_unit_drop(epsilon_data)>>
    /\ raised' = None
    /\ pc' = "done"
    /\ UNCHANGED windows
    /\ DupFrame

\* analyze_threshold_reversions(epsilon_data, threshold): it has no raise
\* statement
call_analyze_threshold_reversions ==
    /\ pc = "call"
    /\ consumer' = <<"analyze_threshold_reversions">>
    /\ windows' = analyze_threshold_reversions(epsilon_data, threshold)
    /\ raised' = None
    /\ pc' = "done"
    /\ UNCHANGED best
    /\ DupFrame

DupNext ==
    \/ call_most_frequent_one_unit_drop
    \/ call_analyze_threshold_reversions

SpecDup == DupInit /\ [][DupNext]_vars

\* ---------------------------------------------------------------------------
\* The copies of the selector and of the backtester: entry_dates.py under
\* "risk assesment" and epsilon_entry.py, called on the rows the copies of
\* data_extraction are called on.

\* the if / elif / elif chain of lines 33-47 for one candidate, with a fault:
\* a drop counts only when it took fewer than 30 days
RiskCandidateStrictDays(st, count, abs_z, d, S) ==
    IF abs_z >= S /\ ~st.above /\ st.drop_start = None
    THEN [st |-> [above |-> TRUE, drop_start |-> st.drop_start], count |-> count]
    ELSE IF SubOne(S) <= 10 * abs_z /\ abs_z < S /\ st.above /\ st.drop_start = None
    THEN [st |-> [above |-> st.above, drop_start |-> <<d>>], count |-> count]
    ELSE IF 10 * abs_z < SubOne(S) /\ st.drop_start # None
    THEN [st |-> [above |-> FALSE, drop_start |-> None],
          count |-> IF d - st.drop_start[1] < DropDays THEN count + 1 ELSE count]
    ELSE [st |-> st, count |-> count]

\* the if / elif / elif chain of lines 33-47 for one candidate: its state and
\* drops[S], 0 for a key never incremented
RiskCandidate(st, count, abs_z, d, S) ==
    IF abs_z >= S /\ ~st.above /\ st.drop_start = None
    THEN [st |-> [above |-> TRUE, drop_start |-> st.drop_start], count |-> count]
    ELSE IF SubOne(S) <= 10 * abs_z /\ abs_z < S /\ st.above /\ st.drop_start = None
    THEN [st |-> [above |-> st.above, drop_start |-> <<d>>], count |-> count]
    ELSE IF 10 * abs_z < SubOne(S) /\ st.drop_start # None
    THEN [st |-> [above |-> FALSE, drop_start |-> None],
          count |-> IF d - st.drop_start[1] <= DropDays THEN count + 1 ELSE count]
    ELSE [st |-> st, count |-> count]

\* is_above and drop_start of line 20 and drops of line 21, per candidate
RiskInit ==
    [S \in thresholds |-> [st |-> [above |-> FALSE, drop_start |-> None], count |-> 0]]

\* the body of the loop of line 23 of "risk assesment"/entry_dates.py
RiskRow(all, z, d) ==
    [S \in thresholds |-> RiskCandidate(all[S].st, all[S].count, Abs(z), d, S)]

\* lines 50-56 of "risk assesment"/entry_dates.py: the sentinel, or the key
\* that is largest by (count, S)
RiskBest(all) ==
    LET keys == {S \in thresholds : all[S].count > 0}
    IN  IF keys = {} THEN Sentinel
        ELSE CHOOSE S \in keys :
                \A T \in keys : \/ all[T].count < all[S].count
                                \/ all[T].count = all[S].count /\ T <= S

\* lines 53-59 of epsilon_entry.py
EntryBest(dr) ==
    IF DOMAIN dr = {} THEN Sentinel
    ELSE CHOOSE S \in DOMAIN dr : \A T \in DOMAIN dr : ~KeyLess(dr, S, T)

\* the body of the loop of line 86 of "risk assesment"/entry_dates.py
RiskBtRow(b, i, z, d, th) ==
    LET closed(success) ==
            [in_trade |-> FALSE, trade_type |-> None, entry_date |-> None,
             entry_index |-> None,
             entries |-> b.entries \o <<[entry_date |-> b.entry_date[1],
                                         exit_date |-> d, success |-> success,
                                         type |-> b.trade_type[1]]>>]
        opened(type) ==
            [in_trade |-> TRUE, trade_type |-> <<type>>, entry_date |-> <<d>>,
             entry_index |-> <<i>>, entries |-> b.entries]
    IN  IF ~b.in_trade
        THEN IF z >= th THEN opened("upper")
             ELSE IF z <= -th THEN opened("lower")
             ELSE b
        ELSE IF b.trade_type = <<"upper">> /\ 10 * z <= SubOne(th) THEN closed(TRUE)
        ELSE IF b.trade_type = <<"lower">> /\ 10 * z >= -SubOne(th) THEN closed(TRUE)
        ELSE IF i - b.entry_index[1] >= TimeoutRows THEN closed(FALSE)
        ELSE b

\* lines 149-156 of "risk assesment"/entry_dates.py: what the copy returns
RiskReturned(b) ==
    LET wins == {k \in 1..Len(b.entries) : b.entries[k].success}
    IN  [results |-> b.entries,
         success_rate |-> IF Len(b.entries) > 0
                          THEN <<Cardinality(wins), Len(b.entries)>> ELSE <<0, 1>>]

\* z-scores of the rows, in tenths, and for how many daily rows each is held
CopyZ == {-25, 0, 9, 20}
CopyRuns == {1, 30, 31}
CopyLens == {0, 1, 2, 3}

RECURSIVE Expand(_)
\* the rows of a list of (z-score, run) items, one row a day
Expand(f) ==
    IF f = <<>> THEN <<>>
    ELSE LET before == Expand(SubSeq(f, 1, Len(f) - 1))
             item == f[Len(f)]
         IN  before \o [j \in 1..item[2] |->
                           [date |-> Len(before) + j, z_score |-> item[1]]]

\* the longest sequence the copies are called on
MaxCopyRows == 62

CopyData ==
    {data \in {Expand(f) : f \in UNION {[1..k -> CopyZ \X CopyRuns] : k \in CopyLens}} :
        Len(data) <= MaxCopyRows}

\* thresholds the backtesters are called with, in tenths
CopyThresholds == {19, 20}

CopyInit ==
    /\ pc = "call"
    /\ row = None
    /\ n = 0
    /\ best = None
    /\ state = InitState
    /\ drops = InitDrops
    /\ hist = InitHist
    /\ threshold \in CopyThresholds
    /\ bt = InitBt
    /\ spans = <<>>
    /\ hold = [left |-> 0, free |-> 0, runs |-> 0]
    /\ epsilon_data \in CopyData
    /\ consumer = None
    /\ analyzed = {}
    /\ windows = <<>>
    /\ lines = None
    /\ copies = [risk_sel |-> RiskInit, risk_bt |-> InitBt,
                 entry_sel |-> [state |-> InitState, drops |-> InitDrops]]
    /\ LibIdle

\* one row of epsilon_data goes through the loop of every copy
copy_row ==
    /\ pc = "call"
    /\ n < Len(epsilon_data)
    /\ LET r == epsilon_data[n + 1]
           sel == SelStep(state, drops, r.z_score, r.date)
       IN  /\ row' = <<r>>
           /\ state' = sel.state
           /\ drops' = sel.drops
           /\ bt' = BtStep(bt, n, r.z_score, r.date, threshold)
           /\ copies' = [risk_sel |-> RiskRow(copies.risk_sel, r.z_score, r.date),
                         risk_bt |-> RiskBtRow(copies.risk_bt, n, r.z_score,
                                               r.date, threshold),
                         entry_sel |-> SelStep(copies.entry_sel.state,
                                               copies.entry_sel.drops,
                                               r.z_score, r.date)]
    /\ n' = n + 1
    /\ UNCHANGED <<pc, best, hist, threshold, spans, hold, epsilon_data, consumer,
                   analyzed, windows, lines, libVars>>

\* the loops are over: what the three selectors and the two backtesters return
copy_return ==
    /\ pc = "call"
    /\ n = Len(epsilon_data)
    /\ consumer' = <<"copies">>
    /\ best' = <<Best(drops), RiskBest(copies.risk_sel),
                 EntryBest(copies.entry_sel.drops)>>
    /\ windows' = <<Returned(bt), RiskReturned(copies.risk_bt)>>
    /\ pc' = "done"
    /\ UNCHANGED <<row, n, selVars, btVars, epsilon_data, analyzed, lines, copies,
                   libVars>>

CopyNext ==
    \/ copy_row
    \/ copy_return

SpecCopies == CopyInit /\ [][CopyNext]_vars

\* ---------------------------------------------------------------------------
\* main.py: the scheduler. Times are minutes; `now` counts from the midnight
\* of the day main was started on.

\* os.getenv('UPDATE_TIME', '16:00'): 16:00
UpdateTimeDefault == 960

\* the values of UPDATE_TIME: unset in the environment, or set to 09:30
UpdateTimes == {UpdateTimeDefault, 570}

\* minutes of a day
Day == 1440

\* time.sleep(60)
SleepMinutes == 1

\* datetime.now().weekday() == 4
Friday == 4

\* how long main is watched, in minutes
MaxMinutes == 45

\* when main is started: at midnight, a minute before 16:00, at 16:00, and
\* late enough for the watch to go past midnight
StartTimes == {0, UpdateTimeDefault - 1, UpdateTimeDefault, Day - 10}

\* the weekday main is started on: Thursday or Friday
StartWeekdays == {3, 4}

\* how long update_prices.py and the tests take
TaskMinutes == {0, 2}

\* datetime.now().weekday() at the minute t
Weekday(t) == (start_weekday + t \div Day) % 7

\* daily_task called at t: the steps it runs when run_update_prices returns ok
daily_task(t, ok) ==
    IF ~ok THEN {"update_prices"}
    ELSE {"update_prices", "cointegration_test", "granger_test"}
         \cup (IF Weekday(t + task_minutes) = Friday THEN {"correlation_test"} ELSE {})

SchedFrame ==
    UNCHANGED <<row, n, best, selVars, btVars, pairVars, epsVars, cointVars,
                alignVars, testerVars, batchVars, writerVars>>

SchedInit ==
    /\ pc = "setup"
    /\ Idle
    /\ EpsIdle
    /\ CointIdle
    /\ AlignIdle
    /\ TesterIdle
    /\ BatchIdle
    /\ WriterIdle
    /\ UPDATE_TIME \in UpdateTimes
    /\ started \in StartTimes
    /\ start_weekday \in StartWeekdays
    /\ task_minutes \in TaskMinutes
    /\ now = started
    /\ jobs = <<>>
    /\ task_log = <<>>
    /\ last_steps = {}

\* line 66: schedule.every().day.at(UPDATE_TIME).do(daily_task)
main_schedule ==
    /\ pc = "setup"
    /\ jobs' = Append(jobs, [unit |-> "days", at_time |-> UPDATE_TIME,
                             job_func |-> "daily_task"])
    /\ pc' = "loop"
    /\ UNCHANGED <<UPDATE_TIME, started, start_weekday, task_minutes, now,
                   task_log, last_steps>>
    /\ SchedFrame

\* line 73: the loop calls daily_task()
main_daily_task ==
    /\ pc = "loop"
    /\ now - started < MaxMinutes
    /\ \E ok \in BOOLEAN : last_steps' = daily_task(now, ok)
    /\ task_log' = Append(task_log, now)
    /\ now' = now + task_minutes
    /\ pc' = "sleep"
    /\ UNCHANGED <<UPDATE_TIME, started, start_weekday, task_minutes, jobs>>
    /\ SchedFrame

\* line 74: time.sleep(60)
main_sleep ==
    /\ pc = "sleep"
    /\ now' = now + SleepMinutes
    /\ pc' = "loop"
    /\ UNCHANGED <<UPDATE_TIME, started, start_weekday, task_minutes, jobs,
                   task_log, last_steps>>
    /\ SchedFrame

\* lines 75-76: Ctrl+C
main_interrupt ==
    /\ pc \in {"loop", "sleep"}
    /\ pc' = "stopped"
    /\ UNCHANGED schedVars
    /\ SchedFrame

SchedNext ==
    \/ main_schedule
    \/ main_daily_task
    \/ main_sleep
    \/ main_interrupt

SpecSched == SchedInit /\ [][SchedNext]_vars

\* ---------------------------------------------------------------------------
\* properties

\* drops[S], 0 for a key the defaultdict does not hold
DropCount(dr, S) == IF S \in DOMAIN dr THEN dr[S] ELSE 0

\* C1: while candidate S's timer runs, a row with |z| >= S leaves the
\* candidate's above flag, timer and count as they are, and a row with
\* |z| < S - 1.0 that comes no more than 30 days after the timer's start adds
\* one to drops[S].
C1_ReRiseIgnored ==
    [][n' = n + 1 =>
        \A S \in thresholds :
            state[S].drop_start # None =>
                LET az == Abs(row'[1].z_score)
                    d == row'[1].date
                IN  /\ az >= S =>
                          /\ state'[S] = state[S]
                          /\ DropCount(drops', S) = DropCount(drops, S)
                    /\ (10 * az < SubOne(S) /\ d - state[S].drop_start[1] <= 30) =>
                          DropCount(drops', S) = DropCount(drops, S) + 1]_vars

\* a timing of S that saw |z| >= S has completed within 30 days and counted
C1_Witness ==
    \E S \in thresholds :
        /\ hist[S].spike
        /\ state[S].drop_start = None
        /\ hist[S].fell # None
        /\ hist[S].fell[1] <= 30
        /\ DropCount(drops, S) = 1

\* two windows of bt.entries share a date
Overlap(a, b) == a.entry_date <= b.exit_date /\ b.entry_date <= a.exit_date

\* C2: no two windows of the same direction have overlapping
\* [entry_date, exit_date] intervals (the dates of the rows increase strictly).
C2_NoOverlapPerDirection ==
    \A j \in DOMAIN bt.entries : \A k \in DOMAIN bt.entries :
        (j < k /\ bt.entries[j].type = bt.entries[k].type) =>
            ~Overlap(bt.entries[j], bt.entries[k])

\* two windows of the same direction, the later entered on the row after the
\* earlier timed out
C2_Witness ==
    /\ Len(bt.entries) >= 2
    /\ bt.entries[1].type = bt.entries[2].type
    /\ ~bt.entries[1].success
    /\ spans[2][1] = spans[1][2] + 1

\* C3: one trade at a time whatever the direction: every window is entered
\* before it is exited, the windows are in chronological order, each is
\* entered on a row after the row that closed the one before, and so is the
\* trade that is open.
C3_Serial ==
    /\ Len(spans) = Len(bt.entries)
    /\ \A k \in DOMAIN spans :
          /\ spans[k][1] < spans[k][2]
          /\ bt.entries[k].entry_date < bt.entries[k].exit_date
    /\ \A k \in DOMAIN spans :
          k < Len(spans) =>
              /\ spans[k][2] < spans[k + 1][1]
              /\ bt.entries[k].exit_date < bt.entries[k + 1].entry_date
    /\ bt.in_trade =>
          /\ bt.entry_index[1] < n
          /\ spans # <<>> => spans[Len(spans)][2] < bt.entry_index[1]

\* two windows of different directions, the second entered on the row after
\* the first closed, and closed by the current row, which meets an entry
\* condition and has opened no trade
C3_Witness ==
    /\ Len(bt.entries) = 2
    /\ bt.entries[1].type # bt.entries[2].type
    /\ spans[2][1] = spans[1][2] + 1
    /\ spans[2][2] = n - 1
    /\ row[1].z_score >= threshold[1] \/ row[1].z_score <= -threshold[1]
    /\ ~bt.in_trade

\* the exit condition of a trade of the given direction, against the double
\* threshold - 1.0
ExitCondition(type, z, th) ==
    \/ type = <<"upper">> /\ 10 * z <= SubOne(th)
    \/ type = <<"lower">> /\ -10 * z <= SubOne(th)

\* C4: a trade is opened exactly on a row read while flat with z >= S (upper)
\* or z <= -S (lower) and keeps its direction; a success window is recorded
\* exactly on a row read while a trade is open whose z meets the exit
\* condition of the trade's direction (the first such row, the trade being
\* closed by it), and it carries the trade's direction and entry date.
C4_EntryAndExit ==
    [][n' = n + 1 =>
        LET z == row'[1].z_score
            th == threshold[1]
            recorded == Len(bt'.entries) = Len(bt.entries) + 1
            last == bt'.entries[Len(bt'.entries)]
        IN  /\ ~bt.in_trade =>
                  /\ bt'.in_trade <=> (z >= th \/ z <= -th)
                  /\ bt'.trade_type = <<"upper">> <=> z >= th
                  /\ bt'.trade_type = <<"lower">> <=> z <= -th
                  /\ bt'.entries = bt.entries
            /\ (bt.in_trade /\ bt'.in_trade) =>
                  /\ bt'.trade_type = bt.trade_type
                  /\ bt'.entry_index = bt.entry_index
            /\ (recorded /\ last.success) <=>
                  (bt.in_trade /\ ExitCondition(bt.trade_type, z, th))
            /\ (recorded /\ last.success) =>
                  /\ <<last.type>> = bt.trade_type
                  /\ <<last.entry_date>> = bt.entry_date
                  /\ last.exit_date = row'[1].date
                  /\ ~bt'.in_trade]_vars

\* a successful upper window and a successful lower window
C4_Witness ==
    /\ \E k \in DOMAIN bt.entries :
          bt.entries[k].success /\ bt.entries[k].type = "upper"
    /\ \E k \in DOMAIN bt.entries :
          bt.entries[k].success /\ bt.entries[k].type = "lower"

\* C5: a failed window is closed on the row with index entry_index + 30, a
\* successful one on a row at most 30 after its entry, and no trade is open
\* after the row with index entry_index + 30 has been read.
C5_Timeout ==
    /\ \A k \in DOMAIN bt.entries :
          /\ ~bt.entries[k].success => spans[k][2] - spans[k][1] = 30
          /\ bt.entries[k].success =>
                (spans[k][2] - spans[k][1] >= 1 /\ spans[k][2] - spans[k][1] <= 30)
    /\ bt.in_trade => (n - 1) - bt.entry_index[1] < 30

\* a window closed by the timeout
C5_Witness ==
    \E k \in DOMAIN bt.entries :
        ~bt.entries[k].success /\ spans[k][2] - spans[k][1] = 30

\* C6: on the row with index entry_index + 30, when the exit condition holds,
\* exactly one window is recorded and it has success = True.
C6_ExitBeforeTimeout ==
    [][(/\ n' = n + 1
        /\ bt.in_trade
        /\ n - bt.entry_index[1] = 30
        /\ ExitCondition(bt.trade_type, row'[1].z_score, threshold[1])) =>
            /\ Len(bt'.entries) = Len(bt.entries) + 1
            /\ bt'.entries[Len(bt'.entries)].success
            /\ ~bt'.in_trade]_vars

\* a successful window closed on the row with index entry_index + 30
C6_Witness ==
    \E k \in DOMAIN bt.entries :
        bt.entries[k].success /\ spans[k][2] - spans[k][1] = 30

\* C7: the selector returns 7 exactly when no candidate has counted a drop
\* (the empty sequence included), and otherwise one of the 11 candidates
\* 1.0 ... 2.0.
C7_SentinelIffNoDrop ==
    /\ Cardinality(thresholds) = 11
    /\ thresholds = 10..20
    /\ pc = "done" =>
          /\ best = <<Sentinel>> <=> \A S \in thresholds : DropCount(drops, S) = 0
          /\ best # <<Sentinel>> => best[1] \in thresholds
          /\ n = 0 => best = <<Sentinel>>

\* 7 returned after a candidate completed a timing too late to count
C7_Witness ==
    /\ pc = "done"
    /\ best = <<Sentinel>>
    /\ \E S \in thresholds : hist[S].fell # None /\ hist[S].fell[1] > 30

\* C8: when a drop was counted, the selector returns a candidate with the
\* highest count, the greatest of those that share it.
C8_ArgMax ==
    (pc = "done" /\ \E S \in thresholds : DropCount(drops, S) > 0) =>
        \A S \in thresholds :
            \/ DropCount(drops, S) < DropCount(drops, best[1])
            \/ DropCount(drops, S) = DropCount(drops, best[1]) /\ S <= best[1]

\* two candidates share the highest count and a third has counted fewer drops
C8_Witness ==
    /\ pc = "done"
    /\ best # <<Sentinel>>
    /\ \E S \in thresholds :
          S # best[1] /\ DropCount(drops, S) = DropCount(drops, best[1])
    /\ \E S \in thresholds :
          DropCount(drops, S) > 0 /\ DropCount(drops, S) < DropCount(drops, best[1])

\* C9: a row with |z| < S - 1.0 read while candidate S's timer runs clears the
\* above flag and the timer, and adds one to drops[S] iff the row's date is at
\* most 30 days after the timer's start (nothing otherwise).
C9_FallClearsAndCounts ==
    [][n' = n + 1 =>
        \A S \in thresholds :
            (state[S].drop_start # None /\ 10 * Abs(row'[1].z_score) < SubOne(S)) =>
                /\ state'[S] = [above |-> FALSE, drop_start |-> None]
                /\ DropCount(drops', S) = DropCount(drops, S) +
                      (IF row'[1].date - state[S].drop_start[1] <= 30 THEN 1 ELSE 0)]_vars

\* a timing that completed exactly 30 days after its start, and counted
C9_Witness ==
    \E S \in thresholds :
        /\ hist[S].fell = <<30>>
        /\ state[S] = [above |-> FALSE, drop_start |-> None]
        /\ DropCount(drops, S) = 1

\* C10: when the selector returned 7, the consumer has not run
\* analyze_threshold_reversions with 7, has returned no trade window and has
\* not used 7 as an entry level.
C10_SentinelSkipped ==
    (pc = "done" /\ best = <<Sentinel>>) =>
        /\ Sentinel \notin analyzed
        /\ windows = <<>>
        /\ lines # None => lines[1].entry # Sentinel

\* the deviation of the 90 spreads before row i is exactly 0
FlatWindow(i) == IsZero(Std(WindowBefore(SpreadOf(df), i)))

\* C11: when the run of the spread computer has ended, every index t >= 90
\* whose trailing 90-observation window has a standard deviation of exactly 0
\* has a persisted row with z_score = 0, and no error was raised
C11_FlatWindowZero ==
    pc \in {"done", "raised"} /\ coef # None =>
        \A i \in Window..(Len(df) - 1) :
            FlatWindow(i) =>
                /\ raised = None
                /\ \E r \in epsilon_prices.rows :
                       r.date = df[i + 1].date /\ r.z_score = Num(0, 1)

\* the spread of a row with the log prices v under the pair's alpha and beta
SpreadWith(v) == v[1] - coef[1] - coef[2] * v[2]

\* the frames of a second run whose input differs from this run's only at
\* index j or later: the rows from j on, or row j alone, carry the log prices v
LaterInputs(j) ==
    { [k \in 1..Len(df) |->
          IF (IF single THEN k = from + 1 ELSE k > from)
          THEN [df[k] EXCEPT !.spread = SpreadWith(v)] ELSE df[k]] :
        from \in j..(Len(df) - 1), v \in LogPairs, single \in BOOLEAN }

\* the indices the rolling loop has passed
Rolled == { i \in Window..(t_idx - 1) : i < Len(df) }

\* C12: rolling_mean[t] and rolling_std[t] of every index t >= 90 the loop
\* has passed are the ones a second run computes whose input differs only at
\* index t or later (no look-ahead, and the current spread is not in its window)
C12_NoLookAhead ==
    \A i \in Rolled :
        \A other \in LaterInputs(i) :
            /\ RollRow(other, i).rolling_mean = df[i + 1].rolling_mean
            /\ RollRow(other, i).rolling_std = df[i + 1].rolling_std

\* the loop has passed an index whose window is not flat, and a second run
\* with another spread at that index exists
C12_Witness ==
    \E i \in Rolled :
        /\ ~IsZero(df[i + 1].rolling_std)
        /\ \E other \in LaterInputs(i) : other[i + 1].spread # df[i + 1].spread

\* the tuples of epsilon_data that carry the date of the pair's row i
EmittedFor(i) ==
    {k \in 1..Len(upload) : upload[k].date = sort_values(pair_prices)[i + 1].date}

\* C13: when the script has ended for a cointegrated pair with N aligned
\* rows, it has emitted exactly one observation for each index t with
\* 90 <= t < N and none for the first 90 indices (so none when N <= 90)
C13_OnePerIndex ==
    pc \in {"done", "raised"} /\ (cointegrated_data # <<>> \/ coef # None) =>
        \A i \in 0..(Len(pair_prices) - 1) :
            Cardinality(EmittedFor(i)) = IF i >= Window THEN 1 ELSE 0

\* every price row of the two lists has its row in log_prices
AllLogged ==
    \A k \in 1..Len(prices_1) \cup 1..Len(prices_2) :
        /\ k <= Len(prices_1) =>
               \E r \in log_prices : r.ticker_price_id = prices_1[k][1]
        /\ k <= Len(prices_2) =>
               \E r \in log_prices : r.ticker_price_id = prices_2[k][1]

\* C14: when every price has a log-price row, the dates get_pair_log_prices
\* returns are exactly the dates inside the range that occur in both lists,
\* each once, in ascending order
C14_CommonDatesInRange ==
    pc = "done" /\ aligned # None /\ AllLogged =>
        LET out == aligned[1].valid_dates
        IN  /\ \A d \in AlignDates :
                   Cardinality({k \in 1..Len(out) : out[k] = d}) =
                       IF /\ date_range[1] <= d /\ d <= date_range[2]
                          /\ d \in DatesOf(prices_1) /\ d \in DatesOf(prices_2)
                       THEN 1 ELSE 0
            /\ \A k \in 1..(Len(out) - 1) : out[k] < out[k + 1]

\* a call that returned two dates which the first list held in descending
\* order, and left out a common date behind the range
C14_Witness ==
    /\ pc = "done" /\ aligned # None /\ AllLogged
    /\ Len(aligned[1].valid_dates) = 2
    /\ \E d \in DatesOf(prices_1) \cap DatesOf(prices_2) : d > date_range[2]
    /\ \E i, j \in 1..Len(prices_1) :
           /\ i < j
           /\ prices_1[i][2] = aligned[1].valid_dates[2]
           /\ prices_1[j][2] = aligned[1].valid_dates[1]

\* the log price stored for the price row of the date d in the list prices
LogPriceOn(prices, d) ==
    LET price_id == prices[CHOOSE k \in 1..Len(prices) : prices[k][2] = d][1]
    IN  (CHOOSE r \in log_prices : r.ticker_price_id = price_id).log_price

\* C15: the two values get_pair_log_prices pairs with a returned date are
\* the log price of the first ticker and the log price of the second ticker
\* on that date
C15_LogPricesPaired ==
    pc = "done" /\ aligned # None =>
        \A k \in 1..Len(aligned[1].valid_dates) :
            /\ aligned[1].log_prices_1[k] =
                   LogPriceOn(prices_1, aligned[1].valid_dates[k])
            /\ aligned[1].log_prices_2[k] =
                   LogPriceOn(prices_2, aligned[1].valid_dates[k])

\* C16: after the batch, every pair with fewer common dates than the minimum
\* sample size has had InsufficientData raised for it and been recorded as
\* skipped, no result row was written for it, and the pairs after it were
\* processed.
TooFew(k) ==
    IF pc = "done" /\ batch_log_prices # <<>>
    THEN Len(batch_log_prices[k].prices) < MinPoints
    ELSE LET pair == pairs_to_analyze[k]
         IN  Cardinality(DatesOf(ticker_prices[pair[1]])
                         \cap DatesOf(ticker_prices[pair[2]])) < window_size

PairOf(k) ==
    IF batch_log_prices # <<>> THEN batch_log_prices[k].pair ELSE pairs_to_analyze[k]

C16_InsufficientDataSkips ==
    pc = "done" =>
        \A k \in 1..(Len(batch_log_prices) + Len(pairs_to_analyze)) :
            TooFew(k) =>
                /\ \E e \in 1..Len(events) :
                       /\ events[e].pair = PairOf(k)
                       /\ events[e].event = "InsufficientData"
                /\ \A j \in 1..Len(results) : results[j].pair # PairOf(k)
                /\ \A r \in cointegration_tests.rows :
                       <<r.ticker_id_1, r.ticker_id_2>> # PairOf(k)
                /\ pair_idx = Len(pairs_to_analyze)

\* C17: in every batch driver, when the driver has ended, every pair whose
\* processing raised no exception has been processed and its rows are in the
\* database, whatever the other pairs of the batch raised.
C17_BatchSurvivesFailure ==
    pc \in {"done", "aborted"} =>
        \A k \in 1..Len(outcomes) :
            ~outcomes[k].raises =>
                /\ k \in yielded
                /\ Range(RowsOf(k)) \subseteq StripIds(stored)

\* C18: when a writer is called again with the rows of a write that succeeded,
\* the call succeeds and the rows stored, their ids left aside, are the rows
\* stored after the first write.
C18_RewriteIdempotent ==
    \A k \in 2..Len(writes) :
        writes[1].error = None =>
            /\ writes[k].error = None
            /\ writes[k].rows = writes[1].rows

\* the stored tests of the latest test date
LatestTests ==
    {r \in cointegration_tests.rows :
        \A x \in cointegration_tests.rows : x.test_date <= r.test_date}

\* C19: a pair is among the cointegrated pairs the script loaded iff the
\* p_value of its latest test is strictly less than the default threshold; a
\* p_value equal to the threshold is never treated as cointegrated.
C19_StrictThreshold ==
    pc \in {"done", "raised", "frame"} =>
        \A r \in LatestTests :
            (\E k \in 1..Len(cointegrated_data) :
                /\ cointegrated_data[k][1] = Symbol(r.ticker_id_1)
                /\ cointegrated_data[k][2] = Symbol(r.ticker_id_2))
            <=> r.p_value < DefaultMaxP

\* two rows of epsilon_data carry the same date
HasDuplicateDate ==
    \E i, j \in 1..Len(epsilon_data) :
        i # j /\ epsilon_data[i].date = epsilon_data[j].date

\* C20: the threshold selector and the backtester, called on a sequence in
\* which two observations carry the same date, raise DuplicateDate and return
\* no result.
C20_DuplicateDateRejected ==
    pc = "done" /\ HasDuplicateDate =>
        /\ raised = <<"DuplicateDate">>
        /\ best = None
        /\ windows = <<>>

\* the common dates of the pair k of the batch, ascending
CommonDates(k) ==
    sorted(DatesOf(ticker_prices[pairs_to_analyze[k][1]])
           \cap DatesOf(ticker_prices[pairs_to_analyze[k][2]]))

\* the stored tests of the pair k of the batch
TestsOf(k) ==
    {r \in cointegration_tests.rows :
        <<r.ticker_id_1, r.ticker_id_2>> = pairs_to_analyze[k]}

\* C21: when the batch has ended, with every log price stored and coint
\* returning a p-value, each pair with N common dates has exactly one stored
\* test for each index i with window_size <= i < N, dated common_dates[i],
\* and no other stored test (so none when N <= window_size).
C21_OneTestPerWindow ==
    (/\ pc = "done"
     /\ pairs_to_analyze # <<>>
     /\ coint_out # None
     /\ log_prices = {LogPriceRow(PriceId(x, k)) : x \in Tickers, k \in 1..(MaxPrices + 1)})
    => \A k \in 1..Len(pairs_to_analyze) :
          LET common_dates == CommonDates(k)
          IN  /\ \A i \in window_size..(Len(common_dates) - 1) :
                    Cardinality({r \in TestsOf(k) :
                                    r.test_date = common_dates[i + 1]}) = 1
              /\ \A r \in TestsOf(k) :
                    \E i \in window_size..(Len(common_dates) - 1) :
                        r.test_date = common_dates[i + 1]

\* C22: when the script has loaded cointegrated pairs whose rows carry beta
\* but no alpha, no error is raised and the spread of the first pair is
\* computed with alpha 0 and the beta of its row.
C22_AlphaDefaultsToZero ==
    pc \in {"frame", "done", "raised"} /\ cointegrated_data # <<>>
        /\ (\A k \in 1..Len(cointegrated_data) : Len(cointegrated_data[k]) = 3)
    => /\ raised = None
       /\ coef = <<0, cointegrated_data[1][3]>>

\* the rows every pair of the batch yields
YieldedRows == UNION {Range(RowsOf(k)) : k \in 1..Len(outcomes)}

\* C23: in the parallel driver no pair is handed to process_pair twice, and
\* when the driver has ended every pair was handed to it exactly once and the
\* trade windows stored are the windows of all pairs, in whatever order the
\* workers finished.
C23_OncePerPairAnyOrder ==
    pc \in {"pool", "done", "aborted"} /\ chunk_size > 0 =>
        /\ \A k \in 1..Len(outcomes) : handed[k] <= 1
        /\ pc = "done" =>
              /\ \A k \in 1..Len(outcomes) : handed[k] = 1
              /\ StripIds(stored) = YieldedRows

C23_Witness ==
    /\ pc = "done"
    /\ chunk_size = 2
    /\ chunk_no = 2
    /\ Len(all_results) = 3
    /\ all_results[1].ticker_id1 = 2
    /\ all_results[2].ticker_id1 = 1

\* the three states of a candidate
IsIdle(st) == ~st.above /\ st.drop_start = None
IsAbove(st) == st.above /\ st.drop_start = None
IsTiming(st) == st.above /\ st.drop_start # None

\* C24: after any prefix of observations every candidate is idle (above
\* unset, no timer), above (above set, no timer) or timing (above set, timer
\* set); no candidate has a timer while its above flag is unset.
C24_ThreeStates ==
    \A S \in thresholds :
        /\ IsIdle(state[S]) \/ IsAbove(state[S]) \/ IsTiming(state[S])
        /\ ~(state[S].drop_start # None /\ ~state[S].above)

C24_Witness ==
    /\ n > 0
    /\ \E S \in thresholds : IsIdle(state[S]) /\ hist[S] # InitHist[S]
    /\ \E S \in thresholds : IsAbove(state[S])
    /\ \E S \in thresholds : IsTiming(state[S])

\* C25 as stated: when the backtester has returned, no recorded timeout
\* failure was closed on one of the last 29 observations of the series.
C25_NoFailureInTail ==
    pc = "done" =>
        \A k \in DOMAIN bt.entries :
            ~bt.entries[k].success => spans[k][2] < n - 29

\* C25, amended: the backtester has no truncation guard; the row on which an
\* open trade has lasted 30 observations without the exit condition records
\* a timeout failure closed on that very row, although that row is then the
\* last observation read.
C25_FailureRecordedAnywhere ==
    [][(/\ n' = n + 1
        /\ bt.in_trade
        /\ n - bt.entry_index[1] >= 30
        /\ ~ExitCondition(bt.trade_type, row'[1].z_score, threshold[1])) =>
            /\ Len(bt'.entries) = Len(bt.entries) + 1
            /\ ~bt'.entries[Len(bt'.entries)].success
            /\ bt'.entries[Len(bt'.entries)].exit_date = row'[1].date
            /\ ~bt'.in_trade]_vars

\* the series ends on the row that closed a timeout failure
C25_Witness ==
    /\ pc = "done"
    /\ \E k \in DOMAIN bt.entries :
          ~bt.entries[k].success /\ spans[k][2] = n - 1

\* C26: candidate 1.0 never counts a drop and is never returned, and once
\* its timer has started no row clears or restarts it.
C26_LowestCandidateStuck ==
    /\ [](/\ DropCount(drops, 10) = 0
          /\ best # <<10>>)
    /\ [][state[10].drop_start # None => state'[10] = state[10]]_vars

\* the timer of candidate 1.0 has run through a row with z = 0
C26_Witness ==
    /\ state[10].drop_start # None
    /\ row[1].z_score = 0
    /\ state[10].drop_start[1] < row[1].date

\* C27: a row with |z| < S - 1 read while candidate S is above with no timer
\* leaves its flags and its count as they are, and a row with
\* S - 1 <= |z| < S read in that state starts the timer on that row.
C27_DirectFallKeepsAbove ==
    [][n' = n + 1 =>
         \A S \in thresholds :
            IsAbove(state[S]) =>
               /\ LtSubOne(Abs(row'[1].z_score), S) =>
                     /\ state'[S] = state[S]
                     /\ DropCount(drops', S) = DropCount(drops, S)
               /\ (GeSubOne(Abs(row'[1].z_score), S) /\ Abs(row'[1].z_score) < S) =>
                     state'[S] = [above |-> TRUE, drop_start |-> <<row'[1].date>>]]_vars

\* rows with |z| 2.5, then below 1.0, then 1.4: candidate 1.0 has timed since
\* the second row and candidate 2.0 starts its timer on the third
C27_Witness ==
    /\ n = 3
    /\ row[1].z_score = 14
    /\ state[20].drop_start = <<row[1].date>>
    /\ DropCount(drops, 20) = 0
    /\ state[10].drop_start # None
    /\ state[10].drop_start[1] < row[1].date

\* C28: when the backtester returns with a trade still open, entered fewer
\* than 30 observations before the end, its results hold only the windows
\* closed before that trade was entered, none for the open trade, and
\* success_rate counts those closed windows alone.
C28_OpenTradeDropped ==
    pc = "done" /\ bt.in_trade =>
        /\ (n - 1) - bt.entry_index[1] < TimeoutRows
        /\ Len(Returned(bt).results) = Len(spans)
        /\ \A k \in 1..Len(Returned(bt).results) :
              /\ spans[k][2] < bt.entry_index[1]
              /\ Returned(bt).results[k].entry_date # bt.entry_date[1]
        /\ Returned(bt).success_rate[2] = IF spans = <<>> THEN 1 ELSE Len(spans)
        /\ Returned(bt).success_rate[1] =
              Cardinality({k \in 1..Len(spans) : spans[k][2] - spans[k][1] < TimeoutRows
                              \/ Returned(bt).results[k].success})

\* the series ends with a trade open for at least one row, after one
\* successful window was closed
C28_Witness ==
    /\ pc = "done"
    /\ bt.in_trade
    /\ Len(bt.entries) = 1
    /\ bt.entries[1].success
    /\ n - 1 > bt.entry_index[1]

\* C29: on every z-score sequence and threshold, the three copies of
\* most_frequent_one_unit_drop return the same threshold and the two copies
\* of analyze_threshold_reversions return the same trade windows and the same
\* success rate.
C29_CopiesAgree ==
    pc = "done" /\ consumer = <<"copies">> =>
        /\ best[2] = best[1]
        /\ best[3] = best[1]
        /\ windows[2] = windows[1]

\* a sequence on which a candidate is returned and a timeout failure is
\* recorded
C29_Witness ==
    /\ pc = "done"
    /\ consumer = <<"copies">>
    /\ best[1] \in thresholds
    /\ \E k \in 1..Len(windows[1].results) : ~windows[1].results[k].success

\* C30: daily_task is called only at UPDATE_TIME, and at most once on any
\* day.
C30_OncePerDayAtUpdateTime ==
    \A k \in 1..Len(task_log) :
        /\ task_log[k] % Day = UPDATE_TIME
        /\ \A j \in 1..(k - 1) : task_log[j] \div Day # task_log[k] \div Day

====
